---------------------------- MODULE Spec2Model ----------------------------
(***************************************************************************)
(* Model of the announcement monitor of script.js: the poll scheduler      *)
(* (toggleMonitoring / startMonitoring / stopMonitoring), the fallback     *)
(* chain of fetchAnnouncements, the ingestion of a batch                   *)
(* (processApiResponse / processAnnouncements), the text extraction        *)
(* helpers and the stock price cache (fetchStockPrice).                    *)
(*                                                                         *)
(* JavaScript strings are TLA+ strings; a character is a string of length  *)
(* one, read with SubSeq.  An exception thrown by a function is modelled   *)
(* by a "threw" flag in its result.                                        *)
(***************************************************************************)
EXTENDS Integers, Sequences, FiniteSets, TLC

Null == "<null>"

(***************************************************************************)
(* Characters                                                              *)
(***************************************************************************)
\* The printable ASCII characters in code order: codes 32..95 and 97..126
\* (code 96, the backquote, cannot be written in a string of this language).
AsciiLow == " !\"#$%&'()*+,-./0123456789:;<=>?@ABCDEFGHIJKLMNOPQRSTUVWXYZ[\\]^_"

AsciiHigh == "abcdefghijklmnopqrstuvwxyz{|}~"

UpperCase == "ABCDEFGHIJKLMNOPQRSTUVWXYZ"

LowerCase == "abcdefghijklmnopqrstuvwxyz"

Digits == {"0", "1", "2", "3", "4", "5", "6", "7", "8", "9"}

CharAt(s, i) == SubSeq(s, i, i)

IndexIn(c, alphabet) ==
    IF \E i \in 1..Len(alphabet) : CharAt(alphabet, i) = c
    THEN CHOOSE i \in 1..Len(alphabet) : CharAt(alphabet, i) = c
    ELSE 0

\* Code unit of a character; the only character outside the ASCII table that
\* the modelled texts use is the rupee sign U+20B9.
CharCode(c) ==
    IF IndexIn(c, AsciiLow) # 0 THEN 31 + IndexIn(c, AsciiLow)
    ELSE IF IndexIn(c, AsciiHigh) # 0 THEN 96 + IndexIn(c, AsciiHigh)
    ELSE 8377

RECURSIVE toLowerCase(_)
toLowerCase(s) ==
    IF Len(s) = 0 THEN ""
    ELSE LET c == CharAt(s, 1)
             u == IndexIn(c, UpperCase)
         IN (IF u # 0 THEN CharAt(LowerCase, u) ELSE c) \o toLowerCase(Tail(s))

IsSpace(c) == c = " "

RECURSIVE trimStart(_)
trimStart(s) ==
    IF Len(s) > 0 /\ IsSpace(CharAt(s, 1)) THEN trimStart(Tail(s)) ELSE s

RECURSIVE trimEnd(_)
trimEnd(s) ==
    IF Len(s) > 0 /\ IsSpace(CharAt(s, Len(s)))
    THEN trimEnd(SubSeq(s, 1, Len(s) - 1)) ELSE s

trim(s) == trimEnd(trimStart(s))

(***************************************************************************)
(* btoa and createAnnouncementId                                           *)
(***************************************************************************)
B64Alphabet == "ABCDEFGHIJKLMNOPQRSTUVWXYZabcdefghijklmnopqrstuvwxyz0123456789+/"

B64Char(sextet) == CharAt(B64Alphabet, sextet + 1)

\* btoa throws InvalidCharacterError when a character is outside Latin1.
btoaThrows(s) == \E i \in 1..Len(s) : CharCode(CharAt(s, i)) > 255

RECURSIVE btoa(_)
btoa(s) ==
    IF Len(s) = 0 THEN ""
    ELSE LET b1 == CharCode(CharAt(s, 1))
             b2 == IF Len(s) >= 2 THEN CharCode(CharAt(s, 2)) ELSE 0
             b3 == IF Len(s) >= 3 THEN CharCode(CharAt(s, 3)) ELSE 0
             c1 == B64Char(b1 \div 4)
             c2 == B64Char((b1 % 4) * 16 + (b2 \div 16))
             c3 == IF Len(s) >= 2 THEN B64Char((b2 % 16) * 4 + (b3 \div 64)) ELSE "="
             c4 == IF Len(s) >= 3 THEN B64Char(b3 % 64) ELSE "="
         IN c1 \o c2 \o c3 \o c4 \o
            (IF Len(s) > 3 THEN btoa(SubSeq(s, 4, Len(s))) ELSE "")

IsAlnum(c) ==
    \/ IndexIn(c, UpperCase) # 0
    \/ IndexIn(c, LowerCase) # 0
    \/ c \in Digits

\* s.replace(/[^a-zA-Z0-9]/g, '')
RECURSIVE stripNonAlnum(_)
stripNonAlnum(s) ==
    IF Len(s) = 0 THEN ""
    ELSE (IF IsAlnum(CharAt(s, 1)) THEN CharAt(s, 1) ELSE "")
         \o stripNonAlnum(Tail(s))

\* A key that also takes the headline.
compositeKeyWithHeadline(a) ==
    a.SCRIP_CD \o "_" \o a.NEWSID \o "_" \o a.DT_TM \o "_" \o a.NEWS_SUB
        \o "_" \o a.HEADLINE

compositeKey(a) ==
    a.SCRIP_CD \o "_" \o a.NEWSID \o "_" \o a.DT_TM \o "_" \o a.NEWS_SUB

\* btoa(key).replace(...), or Null when btoa throws
encodeKey(key) == IF btoaThrows(key) THEN Null ELSE stripNonAlnum(btoa(key))

(***************************************************************************)
(* extractRupeeAmount: the four patterns, tried in order, matched with the *)
(* backtracking semantics of JavaScript regular expressions.  A pattern is *)
(* a sequence of nodes: an ordered alternation of literals ("alt"), a       *)
(* greedy repetition of a character class with a minimum count ("cls", or  *)
(* "ncls" for a negated class), or the end-of-input anchor ("end").        *)
(***************************************************************************)
Alt(lits) == [t |-> "alt", a |-> lits, set |-> {}, min |-> 0]

Cls(set, min) == [t |-> "cls", a |-> <<>>, set |-> set, min |-> min]

NCls(set, min) == [t |-> "ncls", a |-> <<>>, set |-> set, min |-> min]

End == [t |-> "end", a |-> <<>>, set |-> {}, min |-> 0]

Rupee == <<"rs.", "rs", "inr", "₹">>

Ws == Cls({" "}, 0)

Number == <<Cls(Digits \cup {","}, 1), Alt(<<".", "">>), Cls(Digits, 0)>>

patterns == <<
    <<Alt(Rupee), Ws>> \o Number \o
        <<Ws, Alt(<<"crore", "crores", "cr", "lakh", "lakhs", "lac", "thousand",
                    "thousands", "million", "millions", "billion", "billions">>)>>,
    <<Alt(Rupee \o <<"worth", "value">>), Ws, Alt(Rupee \o <<"">>), Ws,
      Cls(Digits \cup {","}, 6), Ws,
      Alt(<<"/", "-", "(", "incl", "from", "for", "to", "and", "or", " ">>)>>,
    Number \o
        <<Ws, Alt(<<"crore", "crores", "cr", "lakh", "lakhs", "lac">>), Ws,
          Alt(<<"rupee", "rupees", "rs.", "rs", "inr", "₹">>)>>,
    <<Alt(<<"order", "value", "worth", "amount", "of">>), Ws, Alt(Rupee), Ws>>
        \o Number \o <<Ws, Alt(<<"crore", "crores", "cr">>)>>
>>

RECURSIVE RunLen(_, _, _, _)
RunLen(set, neg, text, pos) ==
    IF pos <= Len(text) /\ ((CharAt(text, pos) \in set) # neg)
    THEN 1 + RunLen(set, neg, text, pos + 1) ELSE 0

LitAt(lit, text, pos) ==
    \/ Len(lit) = 0
    \/ /\ pos + Len(lit) - 1 <= Len(text)
       /\ SubSeq(text, pos, pos + Len(lit) - 1) = lit

\* End position (exclusive) of the first successful match of nodes at pos, in
\* backtracking order; 0 when there is none.
RECURSIVE MatchAt(_, _, _), TryAlts(_, _, _, _, _), TryCounts(_, _, _, _, _)
MatchAt(nodes, text, pos) ==
    IF Len(nodes) = 0 THEN pos
    ELSE LET n == Head(nodes)
         IN IF n.t = "alt"
            THEN TryAlts(n.a, 1, Tail(nodes), text, pos)
            ELSE IF n.t = "end"
            THEN (IF pos = Len(text) + 1 THEN MatchAt(Tail(nodes), text, pos) ELSE 0)
            ELSE TryCounts(RunLen(n.set, n.t = "ncls", text, pos), n.min,
                           Tail(nodes), text, pos)

TryAlts(alts, i, rest, text, pos) ==
    IF i > Len(alts) THEN 0
    ELSE LET r == IF LitAt(alts[i], text, pos)
                  THEN MatchAt(rest, text, pos + Len(alts[i])) ELSE 0
         IN IF r # 0 THEN r ELSE TryAlts(alts, i + 1, rest, text, pos)

TryCounts(k, min, rest, text, pos) ==
    IF k < min THEN 0
    ELSE LET r == MatchAt(rest, text, pos + k)
         IN IF r # 0 THEN r ELSE TryCounts(k - 1, min, rest, text, pos)

\* text.match(pattern)[0] for a global pattern: the leftmost match, or Null.
RECURSIVE FirstMatchFrom(_, _, _)
FirstMatchFrom(nodes, text, pos) ==
    IF pos > Len(text) THEN Null
    ELSE LET e == MatchAt(nodes, text, pos)
         IN IF e # 0 THEN SubSeq(text, pos, e - 1)
            ELSE FirstMatchFrom(nodes, text, pos + 1)

RECURSIVE FirstPatternBackwards(_, _)
FirstPatternBackwards(text, i) ==
    IF i > Len(patterns) THEN Null
    ELSE LET m == FirstMatchFrom(patterns[Len(patterns) + 1 - i], text, 1)
         IN IF m # Null THEN trim(m) ELSE FirstPatternBackwards(text, i + 1)

RECURSIVE FirstPattern(_, _)
FirstPattern(text, i) ==
    IF i > Len(patterns) THEN Null
    ELSE LET m == FirstMatchFrom(patterns[i], text, 1)
         IN IF m # Null THEN trim(m) ELSE FirstPattern(text, i + 1)

matchRupeeAmount(headline, more) ==
    FirstPattern(toLowerCase(headline \o " " \o more), 1)

(***************************************************************************)
(* extractSymbol                                                           *)
(***************************************************************************)
RECURSIVE toUpperCase(_)
toUpperCase(s) ==
    IF Len(s) = 0 THEN ""
    ELSE LET c == CharAt(s, 1)
             l == IndexIn(c, LowerCase)
         IN (IF l # 0 THEN CharAt(UpperCase, l) ELSE c) \o toUpperCase(Tail(s))

\* /\/stock-share-price\/[^\/]+\/([^\/]+)\/\d+\/?$/ split around its capture group
symbolPrefix == <<Alt(<<"/stock-share-price/">>), NCls({"/"}, 1), Alt(<<"/">>)>>

symbolGroup == <<NCls({"/"}, 1)>>

symbolSuffix == <<Alt(<<"/">>), Cls(Digits, 1), Alt(<<"/", "">>), End>>

\* The text captured by the group of the leftmost match, or Null.  Every
\* node before the group has a single way to match, so the group starts
\* where the prefix ends; the group is greedy and gives characters back.
RECURSIVE GroupFrom(_, _), GroupLen(_, _, _)
GroupLen(text, start, k) ==
    IF k < 1 THEN Null
    ELSE IF MatchAt(symbolSuffix, text, start + k) # 0
         THEN SubSeq(text, start, start + k - 1)
         ELSE GroupLen(text, start, k - 1)

GroupFrom(text, pos) ==
    IF pos > Len(text) THEN Null
    ELSE LET p == MatchAt(symbolPrefix, text, pos)
             g == IF p = 0 THEN Null
                  ELSE GroupLen(text, p, RunLen({"/"}, TRUE, text, p))
         IN IF g # Null THEN g ELSE GroupFrom(text, pos + 1)

matchSymbolAsIs(url) ==
    IF url = "" THEN Null
    ELSE GroupFrom(url, 1)

matchSymbol(url) ==
    IF url = "" THEN Null
    ELSE LET m == GroupFrom(url, 1)
         IN IF m # Null THEN toUpperCase(m) ELSE Null

(***************************************************************************)
(* Program constants                                                       *)
(***************************************************************************)
CORS_PROXIES == <<"https://api.allorigins.win/raw?url=", "https://corsproxy.io/?">>

\* local proxy, direct request, then one strategy per relay
NumStrategies == 2 + Len(CORS_PROXIES)

CACHE_TTL == 30000

(***************************************************************************)
(* Bounds of the model                                                     *)
(***************************************************************************)
MaxBatchLen == 2

MaxInFlight == 2

MaxPriceInFlight == 2

MaxTime == 60000

MaxTimers == 2

MaxOrders == 1

(***************************************************************************)
(* The records the feed can deliver.  An absent field is the empty string  *)
(* (the code reads every field through  || '').                            *)
(***************************************************************************)
Raw(scrip, newsid, dt, sub, headline, url) ==
    [SCRIP_CD |-> scrip, NEWSID |-> newsid, DT_TM |-> dt, NEWS_SUB |-> sub,
     HEADLINE |-> headline, MORE |-> "", NSURL |-> url]

RecA == Raw("", "n1", "t1", "Order", "Order worth Rs. 28.75 Crore received", "")

\* same composite key as RecA, another headline
RecA2 == Raw("", "n1", "t1", "Order", "Order of Rs 5 lakh", "")

RecB == Raw("", "n2", "t2", "Award", "Work order of Rs. 22,39,05,000/- awarded", "")

\* the composite key of RecB, no amount in the text
RecC == Raw("", "n2", "t2", "Award", "no numbers here", "")

\* the subject line holds the rupee sign, a character outside Latin1
RecD == Raw("", "n4", "t4", "Order of ₹12 cr", "Contract worth INR 12 cr", "")

\* a record with a scrip code and a detail URL: its card looks up the price
AcmeUrl == "https://x.com/stock-share-price/acme-ltd/acmeltd/500/"

RecP == Raw("500", "n5", "t5", "Order", "Order worth Rs. 3 crore", AcmeUrl)

\* The records without a scrip code: rendering them starts no price lookup.
PlainRecords == {RecA, RecA2, RecB, RecC, RecD}

\* another record of the same company: the same scrip code and detail URL
RecP2 == Raw("500", "n7", "t7", "Order", "Order worth Rs. 9 crore", AcmeUrl)

\* a record with a scrip code and no detail URL
RecQ == Raw("501", "n6", "t6", "Order", "Order worth Rs. 4 crore", "")

Records == PlainRecords \cup {RecP, RecP2, RecQ}

\* Detail texts a record can carry, and its headlines: the same and two
\* longer ones.
TextFragments ==
    {"", "no numbers here", "5 Crore Rupees", "value 1234567 for",
     "order of INR 12 cr", "₹ 3 lakh", "INR 5", "12,34,567", "Contract"}

Headlines ==
    TextFragments \cup {"Order worth Rs. 28.75 Crore received",
                        "Work order of Rs. 22,39,05,000/- awarded"}

TextInputs == Headlines \X TextFragments

\* Detail URLs a record can carry: what precedes the path, the path up to
\* the symbol, and what follows it.
UrlHeads == {"https://x.com", "", "x"}

UrlPaths ==
    {"/stock-share-price/acme-ltd/ACMELTD", "/stock-share-price/acme-ltd/acmeltd",
     "/stock-share-price//ACMELTD", "/stock-share-price/acme-ltd",
     "/stock-share-price/a/stock-share-price/b/Ab9",
     "/share-price/acme-ltd/ACMELTD", "/stock-share-price/co/sym/77"}

UrlTails == {"/12345/", "/12345", "/12a45/", "/12345//", "/12345/?x=1", "/", ""}

UrlInputs == {""} \cup {h \o p \o t : h \in UrlHeads, p \in UrlPaths, t \in UrlTails}

\* Records whose key fields hold an underscore, or end in a character that
\* btoa encodes as + or /.
IdRecords ==
    {Raw(scrip, newsid, dt, sub, "Order worth Rs. 3 crore", "") :
        scrip \in {"", "500"}, newsid \in {"n1", "n2"}, dt \in {"t1", "t1_A"},
        sub \in {"Q?", "Q>", "A_Q?", "Order"}}

\* The text functions are evaluated once for the texts of Records and looked
\* up by the handlers.
amountTable ==
    [t \in {<<r.HEADLINE, r.MORE>> : r \in Records} |-> matchRupeeAmount(t[1], t[2])]

symbolTable == [u \in {r.NSURL : r \in Records} |-> matchSymbol(u)]

idTable == [k \in {compositeKey(r) : r \in Records} |-> encodeKey(k)]

extractRupeeAmount(a) == amountTable[<<a.HEADLINE, a.MORE>>]

extractSymbol(a) == symbolTable[a.NSURL]

createAnnouncementIdThrows(a) == idTable[compositeKey(a)] = Null

createAnnouncementId(a) == idTable[compositeKey(a)]

\* The sequences of at most n different elements of S.
SeqsUpTo(S, n) ==
    UNION {{t \in [1..k -> S] : \A i, j \in 1..k : i # j => t[i] # t[j]} : k \in 0..n}

\* A parsed response body: Table is an array (of different records), a single
\* object, or missing.
ArrayBody(t) == [kind |-> "array", Table |-> t]

ObjectBody(r) == [kind |-> "object", Table |-> r]

NoTableBody == [kind |-> "none", Table |-> <<>>]

Bodies ==
    {ArrayBody(t) : t \in SeqsUpTo(PlainRecords, MaxBatchLen)}
        \cup {ObjectBody(r) : r \in PlainRecords} \cup {NoTableBody}

\* A few bodies for the specifications that are not about the ingestion.
ChainBodies == {ArrayBody(<<RecA>>), ArrayBody(<<RecB, RecD>>), NoTableBody}

PriceFeedBodies == {ArrayBody(<<RecP>>), ArrayBody(<<RecB>>)}

\* Bodies for overlapping polls: the feed delivers the same records again.
OverlapBodies ==
    {ArrayBody(<<RecA>>), ArrayBody(<<RecB, RecA>>), ArrayBody(<<RecD, RecA>>),
     NoTableBody}

\* Bodies for the history of the keys: a record and another one with its
\* key, a record without an amount before one with its key, and a record
\* on which the ingestion throws.
LifeBodies ==
    {ArrayBody(<<RecA>>), ArrayBody(<<RecA2>>), ArrayBody(<<RecB, RecC>>),
     ArrayBody(<<RecD, RecA>>)}

\* Bodies for the shapes of a response: Table is an array of up to
\* MaxBatchLen records, a single record, or missing.
ShapeRecords == {RecA, RecB, RecC}

ShapeBodies ==
    {ArrayBody(t) : t \in SeqsUpTo(ShapeRecords, MaxBatchLen)}
        \cup {ObjectBody(r) : r \in ShapeRecords} \cup {NoTableBody}

\* Bodies for the page as a whole: two records that share a price key, and a
\* record with another key.
PageBodies == {ArrayBody(<<RecP, RecP2>>), ArrayBody(<<RecQ>>)}

\* Bodies for the cycles that fail: a record whose price is looked up and a
\* record on which the ingestion throws.
FailingBodies == {ArrayBody(<<RecP>>), ArrayBody(<<RecD>>)}

(***************************************************************************)
(* State                                                                   *)
(***************************************************************************)
VARIABLES
    isMonitoring,          \* let isMonitoring
    pollInterval,          \* let pollInterval: a timer handle, or NoTimer
    timers,                \* the interval timers registered with the runtime
    seenAnnouncementIds,   \* let seenAnnouncementIds
    allAnnouncements,      \* let allAnnouncements
    soundEnabled,          \* let soundEnabled
    stockPriceCache,       \* let stockPriceCache
    status,                \* what updateStatus last displayed
    fetches,               \* the fetchAnnouncements calls in flight
    priceCalls,            \* the network requests of fetchStockPrice in flight
    now,                   \* Date.now()
    kiteAuthenticated,     \* let kiteAuthenticated
    cards,                 \* per scrip code, the card that querySelector finds
    orders,                \* the bodies posted to /api/kite/order, in order
    last                   \* what the last step did (history)

vars == <<isMonitoring, pollInterval, timers, seenAnnouncementIds,
          allAnnouncements, soundEnabled, stockPriceCache, status, fetches,
          priceCalls, now, kiteAuthenticated, cards, orders, last>>

NoTimer == 0

NoError == [src |-> 0, kind |-> "none"]

\* A fetchAnnouncements call: the strategy whose request is outstanding
\* (0: no call in this slot), the value of lastError, the strategies requested.
IdleFetch == [stage |-> 0, lastError |-> NoError, req |-> <<>>, handed |-> 0]

Slots == 1..MaxInFlight

\* stockPriceCache.get(key) of a key that was never set
NoEntry == [present |-> FALSE, data |-> [price |-> Null], timestamp |-> 0]

\* The record of a step: op names the handler that ran; the other fields
\* say what it did (they keep these defaults when they do not apply).
\*   list        the ids of the cards in announcementsList from top to
\*               bottom (kept when track is set)
\*   handed      a response body was handed to processApiResponse
\*   wellFormed  ... and it had a Table
\*   batch       ... the announcements, in the order they were processed
\*   new         the newAnnouncements list of processAnnouncements
\*   threw       processApiResponse threw
\*   sound       playNotificationSound was called
\*   reported    handleFetchError was called, with error
\*   ended       the fetchAnnouncements call returned; req, handedCount: the
\*               strategies it requested and how often it handed a body over
\*   strategy    the strategy whose request resolved
\*   monitoring  isMonitoring when the step began
\*   lookups     the fetchStockPrice calls made, in order: cache key and
\*               whether the call returned the cached value (no request)
\*   key, ok     the price request that resolved and whether it succeeded
\*   returned    what that fetchStockPrice call returned
\*   confirmed   the answer to the confirm dialog of clearAll
\*   price, card what extractPrice returned to the callback of
\*               renderAnnouncement, and what the callback displayed
\*   track       the history below is kept (it is, under SpecLife)
\*   ever        the composite keys of the records with an amount that the
\*               loop of processAnnouncements came to, since the page loaded
\*   everBefore  ... and what ever was before the step
\*   sinceClear  ... and since the last confirmed clearAll
\*   data        the body handed to processApiResponse (kept with the history)
\* What a fetchStockPrice call returns: null, or a body.
ReturnedNull == [isNull |-> TRUE, data |-> [price |-> Null]]

Returned(data) == [isNull |-> FALSE, data |-> data]

InitStep ==
    [op |-> "init", handed |-> FALSE, wellFormed |-> FALSE, batch |-> <<>>,
     new |-> <<>>, threw |-> FALSE, sound |-> FALSE, reported |-> FALSE,
     error |-> NoError, ended |-> FALSE, req |-> <<>>, handedCount |-> 0,
     strategy |-> 0, monitoring |-> FALSE, lookups |-> <<>>, key |-> "",
     ok |-> FALSE, confirmed |-> FALSE, returned |-> ReturnedNull,
     track |-> FALSE, ever |-> {}, everBefore |-> {}, sinceClear |-> {},
     data |-> [kind |-> "none", Table |-> <<>>],
     input |-> <<>>, output |-> Null, ids |-> <<>>, list |-> <<>>,
     price |-> [kind |-> "null", paise |-> 0],
     card |-> [price |-> "", units |-> "", count |-> 0, remaining |-> 0,
               remainingShown |-> FALSE]]

Step(op) ==
    [InitStep EXCEPT !.op = op, !.track = last.track, !.ever = last.ever,
                     !.sinceClear = last.sinceClear, !.list = last.list]

Entry(a, id, isNew) ==
    [SCRIP_CD |-> a.SCRIP_CD, NEWSID |-> a.NEWSID, DT_TM |-> a.DT_TM,
     NEWS_SUB |-> a.NEWS_SUB, HEADLINE |-> a.HEADLINE, MORE |-> a.MORE,
     NSURL |-> a.NSURL, id |-> id, isNew |-> isNew]

RawOf(e) ==
    [SCRIP_CD |-> e.SCRIP_CD, NEWSID |-> e.NEWSID, DT_TM |-> e.DT_TM,
     NEWS_SUB |-> e.NEWS_SUB, HEADLINE |-> e.HEADLINE, MORE |-> e.MORE,
     NSURL |-> e.NSURL]

PriceKeys == {r.SCRIP_CD \o "_" \o (IF extractSymbol(r) = Null THEN "" ELSE extractSymbol(r)) :
              r \in {x \in Records : x.SCRIP_CD # ""}}

\* The scrip codes of the records whose card has a symbol badge, a units
\* element and a Buy button.
CardCodes == {r.SCRIP_CD : r \in {x \in Records : extractSymbol(x) # Null}}

\* No element with the id units-<scrip code> is in the document.
NoCard ==
    [present |-> FALSE, symbol |-> "", loaded |-> FALSE,
     price |-> [kind |-> "null", paise |-> 0], units |-> ""]

\* The card as renderAnnouncement inserts it: the price element says
\* "Loading price..." and the units element is empty and not displayed.
NewCard(symbol) ==
    [present |-> TRUE, symbol |-> symbol, loaded |-> FALSE,
     price |-> [kind |-> "null", paise |-> 0], units |-> ""]

\* The state of the page when the script has loaded.
InitState ==
    /\ isMonitoring = FALSE
    /\ pollInterval = NoTimer
    /\ timers = {}
    /\ seenAnnouncementIds = {}
    /\ allAnnouncements = <<>>
    /\ soundEnabled = TRUE
    /\ stockPriceCache = [k \in PriceKeys |-> NoEntry]
    /\ status = [state |-> "paused", text |-> "Ready to start"]
    /\ fetches = [s \in Slots |-> IdleFetch]
    /\ priceCalls = [k \in PriceKeys |-> 0]
    /\ now = 0
    /\ kiteAuthenticated = FALSE
    /\ cards = [c \in CardCodes |-> NoCard]
    /\ orders = <<>>

Init == InitState /\ last = InitStep

\* The same state, with the history of the ingested keys kept.
InitLife == InitState /\ last = [InitStep EXCEPT !.track = TRUE]

(***************************************************************************)
(* Poll scheduler                                                          *)
(***************************************************************************)
HasFreeSlot == \E s \in Slots : fetches[s].stage = 0

FreeSlot == CHOOSE s \in Slots :
    fetches[s].stage = 0 /\ \A t \in Slots : t < s => fetches[t].stage # 0

\* fetchAnnouncements up to its first await: lastError = null and the request
\* to the local proxy is sent.
BeginFetch ==
    [fetches EXCEPT ![FreeSlot] =
        [stage |-> 1, lastError |-> NoError, req |-> <<1>>, handed |-> 0]]

\* setInterval returns a handle that no registered timer has.
NewTimer == CHOOSE h \in 1..(Cardinality(timers) + 1) : h \notin timers

updateStatus(state, text) == [state |-> state, text |-> text]

\* A start that leaves the first fetch to the timer.
startMonitoringDeferred ==
    /\ isMonitoring' = TRUE
    /\ status' = updateStatus("active", "Monitoring...")
    /\ fetches' = fetches
    /\ timers' = timers \cup {NewTimer}
    /\ pollInterval' = NewTimer

startMonitoring ==
    /\ isMonitoring' = TRUE
    /\ status' = updateStatus("active", "Monitoring...")
    /\ fetches' = BeginFetch
    /\ timers' = timers \cup {NewTimer}
    /\ pollInterval' = NewTimer

\* A stop that does not clear the interval timer.
stopMonitoringKeepingTimer ==
    /\ isMonitoring' = FALSE
    /\ status' = updateStatus("paused", "Paused")
    /\ UNCHANGED <<timers, pollInterval>>
    /\ UNCHANGED fetches

stopMonitoring ==
    /\ isMonitoring' = FALSE
    /\ status' = updateStatus("paused", "Paused")
    /\ IF pollInterval # NoTimer
       THEN timers' = timers \ {pollInterval} /\ pollInterval' = NoTimer
       ELSE UNCHANGED <<timers, pollInterval>>
    /\ UNCHANGED fetches

\* toggleMonitoring, the click handler of the toggle button: the branch taken
\* when monitoring is off ...
ToggleStart ==
    /\ UNCHANGED <<kiteAuthenticated, cards, orders>>
    /\ ~isMonitoring
    /\ HasFreeSlot
    /\ startMonitoring
    /\ last' = [Step("startMonitoring") EXCEPT !.monitoring = isMonitoring]
    /\ UNCHANGED <<seenAnnouncementIds, allAnnouncements, soundEnabled,
                   stockPriceCache, priceCalls, now>>

\* ... and the branch taken when it is on.
ToggleStop ==
    /\ UNCHANGED <<kiteAuthenticated, cards, orders>>
    /\ isMonitoring
    /\ stopMonitoring
    /\ last' = [Step("stopMonitoring") EXCEPT !.monitoring = isMonitoring]
    /\ UNCHANGED <<seenAnnouncementIds, allAnnouncements, soundEnabled,
                   stockPriceCache, priceCalls, now>>

\* A registered interval timer fires: setInterval(fetchAnnouncements, ...).
TimerTick ==
    /\ UNCHANGED <<kiteAuthenticated, cards, orders>>
    /\ timers # {}
    /\ HasFreeSlot
    /\ fetches' = BeginFetch
    /\ last' = [Step("timer") EXCEPT !.monitoring = isMonitoring]
    /\ UNCHANGED <<isMonitoring, pollInterval, timers, seenAnnouncementIds,
                   allAnnouncements, soundEnabled, stockPriceCache, status,
                   priceCalls, now>>

(***************************************************************************)
(* Ingestion                                                               *)
(***************************************************************************)
RECURSIVE Reverse(_)
Reverse(s) == IF Len(s) = 0 THEN <<>> ELSE Append(Reverse(Tail(s)), Head(s))

\* The loop without the amount filter.
RECURSIVE scanAnnouncementsNoFilter(_, _, _)
scanAnnouncementsNoFilter(anns, seen, new) ==
    IF Len(anns) = 0 THEN [seen |-> seen, new |-> new, threw |-> FALSE]
    ELSE LET a == Head(anns)
         IN IF createAnnouncementIdThrows(a)
            THEN [seen |-> seen, new |-> new, threw |-> TRUE]
            ELSE LET id == createAnnouncementId(a)
                 IN IF id \notin seen
                    THEN scanAnnouncementsNoFilter(Tail(anns), seen \cup {id},
                                                   Append(new, Entry(a, id, TRUE)))
                    ELSE scanAnnouncementsNoFilter(Tail(anns), seen, new)

\* The loop with unshift in place of push.
RECURSIVE scanAnnouncementsPrepending(_, _, _)
scanAnnouncementsPrepending(anns, seen, new) ==
    IF Len(anns) = 0 THEN [seen |-> seen, new |-> new, threw |-> FALSE]
    ELSE LET a == Head(anns)
         IN IF extractRupeeAmount(a) = Null
            THEN scanAnnouncementsPrepending(Tail(anns), seen, new)
            ELSE IF createAnnouncementIdThrows(a)
            THEN [seen |-> seen, new |-> new, threw |-> TRUE]
            ELSE LET id == createAnnouncementId(a)
                 IN IF id \notin seen
                    THEN scanAnnouncementsPrepending(Tail(anns), seen \cup {id},
                                                     <<Entry(a, id, TRUE)>> \o new)
                    ELSE scanAnnouncementsPrepending(Tail(anns), seen, new)

\* extractRupeeAmount(announcement) !== null, the test of both loops.
HasAmount(a) == extractRupeeAmount(a) # Null

\* A loop without the test of seenAnnouncementIds.
RECURSIVE scanAnnouncementsIgnoringSeen(_, _, _)
scanAnnouncementsIgnoringSeen(anns, seen, new) ==
    IF Len(anns) = 0 THEN [seen |-> seen, new |-> new, threw |-> FALSE]
    ELSE LET a == Head(anns)
         IN IF extractRupeeAmount(a) = Null
            THEN scanAnnouncementsIgnoringSeen(Tail(anns), seen, new)
            ELSE IF createAnnouncementIdThrows(a)
            THEN [seen |-> seen, new |-> new, threw |-> TRUE]
            ELSE scanAnnouncementsIgnoringSeen(Tail(anns),
                     seen \cup {createAnnouncementId(a)},
                     Append(new, Entry(a, createAnnouncementId(a), TRUE)))

\* The forEach loop of processAnnouncements over the remaining announcements.
RECURSIVE scanAnnouncements(_, _, _)
scanAnnouncements(anns, seen, new) ==
    IF Len(anns) = 0 THEN [seen |-> seen, new |-> new, threw |-> FALSE]
    ELSE LET a == Head(anns)
         IN IF extractRupeeAmount(a) = Null
            THEN scanAnnouncements(Tail(anns), seen, new)
            ELSE IF createAnnouncementIdThrows(a)
            THEN [seen |-> seen, new |-> new, threw |-> TRUE]
            ELSE LET id == createAnnouncementId(a)
                 IN IF id \notin seen
                    THEN scanAnnouncements(Tail(anns), seen \cup {id},
                                           Append(new, Entry(a, id, TRUE)))
                    ELSE scanAnnouncements(Tail(anns), seen, new)

\* The composite keys of the records that the loop looks up in
\* seenAnnouncementIds: the records with an amount, up to the first one on
\* which createAnnouncementId throws.
ingestedKeys(anns) ==
    {compositeKey(anns[i]) :
        i \in {n \in 1..Len(anns) :
                 /\ HasAmount(anns[n])
                 /\ \A j \in 1..n :
                       HasAmount(anns[j]) => ~createAnnouncementIdThrows(anns[j])}}

\* processAnnouncements after its loop, r being what the loop left: the new
\* announcements are put in front of the list, the sound is played and the
\* cards are rendered, when there are any.  The fields are the state the
\* function leaves, its newAnnouncements list, the cards it rendered and
\* whether it played the sound or threw.
prependNew(r, all, soundOn) ==
    [seen |-> r.seen,
     all |-> IF ~r.threw /\ Len(r.new) > 0 THEN r.new \o all ELSE all,
     new |-> r.new,
     rendered |-> IF ~r.threw /\ Len(r.new) > 0 THEN r.new ELSE <<>>,
     sound |-> ~r.threw /\ Len(r.new) > 0 /\ soundOn,
     threw |-> r.threw]

\* A pass that replaces the set of seen ids by the ids it found new.
processAnnouncementsForgetting(announcements, seen, all, soundOn) ==
    LET p == prependNew(scanAnnouncements(announcements, seen, <<>>), all, soundOn)
    IN [p EXCEPT !.seen = IF Len(p.rendered) > 0
                          THEN {p.new[i].id : i \in 1..Len(p.new)} ELSE @]

\* processAnnouncements: its loop, then what follows the loop.
processAnnouncements(announcements, seen, all, soundOn) ==
    prependNew(scanAnnouncements(announcements, seen, <<>>), all, soundOn)

\* The forEach loop of the first-load branch of processApiResponse.
RECURSIVE pushInitial(_, _, _, _)
pushInitial(anns, seen, all, rendered) ==
    IF Len(anns) = 0
    THEN [seen |-> seen, all |-> all, rendered |-> rendered, threw |-> FALSE]
    ELSE LET a == Head(anns)
         IN IF createAnnouncementIdThrows(a)
            THEN [seen |-> seen, all |-> all, rendered |-> rendered, threw |-> TRUE]
            ELSE pushInitial(Tail(anns), seen \cup {createAnnouncementId(a)},
                             Append(all, Entry(a, createAnnouncementId(a), FALSE)),
                             Append(rendered, Entry(a, createAnnouncementId(a), FALSE)))

\* processApiResponse from its first-load test on, p being what
\* processAnnouncements left: what the first-load branch does, when it is
\* taken.
firstLoad(announcements, p) ==
    IF ~p.threw /\ Len(p.all) = 0 /\ Len(announcements) > 0
    THEN pushInitial(SelectSeq(announcements, HasAmount), p.seen, p.all, <<>>)
    ELSE [seen |-> p.seen, all |-> p.all, rendered |-> <<>>, threw |-> p.threw]

\* What processApiResponse did on a body with a Table: p is what
\* processAnnouncements left and q what the first-load branch left.
responseResult(announcements, p, q, st) ==
    [seen |-> q.seen, all |-> q.all, new |-> p.new,
     rendered |-> p.rendered \o q.rendered,
     sound |-> p.sound, threw |-> q.threw, wellFormed |-> TRUE,
     batch |-> announcements,
     status |-> IF q.threw THEN st ELSE updateStatus("active", "Monitoring...")]

afterProcessAnnouncements(announcements, p, st) ==
    responseResult(announcements, p, firstLoad(announcements, p), st)

tableResponse(announcements, seen, all, soundOn, st) ==
    afterProcessAnnouncements(
        announcements, processAnnouncements(announcements, seen, all, soundOn), st)

\* The first lines of processApiResponse on a body with a Table: the array,
\* or the array made of the single object.
announcementsOf(data) ==
    IF data.kind = "array" THEN data.Table ELSE <<data.Table>>

\* A processApiResponse that keeps the order of the provider.
processApiResponseUnreversed(data, seen, all, soundOn, st) ==
    IF data.kind = "none"
    THEN [seen |-> seen, all |-> all, new |-> <<>>, rendered |-> <<>>,
          sound |-> FALSE, threw |-> FALSE, wellFormed |-> FALSE,
          batch |-> <<>>, status |-> updateStatus("active", "Monitoring... (No data)")]
    ELSE tableResponse(announcementsOf(data), seen, all, soundOn, st)

\* A processApiResponse that empties the list when the body has no Table.
processApiResponseResetting(data, seen, all, soundOn, st) ==
    IF data.kind = "none"
    THEN [seen |-> {}, all |-> <<>>, new |-> <<>>, rendered |-> <<>>,
          sound |-> FALSE, threw |-> FALSE, wellFormed |-> FALSE,
          batch |-> <<>>, status |-> updateStatus("active", "Monitoring... (No data)")]
    ELSE tableResponse(Reverse(announcementsOf(data)), seen, all, soundOn, st)

\* processApiResponse(data) run on the state (seen, all, st).
processApiResponse(data, seen, all, soundOn, st) ==
    IF data.kind = "none"
    THEN [seen |-> seen, all |-> all, new |-> <<>>, rendered |-> <<>>,
          sound |-> FALSE, threw |-> FALSE, wellFormed |-> FALSE,
          batch |-> <<>>, status |-> updateStatus("active", "Monitoring... (No data)")]
    ELSE tableResponse(Reverse(announcementsOf(data)), seen, all, soundOn, st)

(***************************************************************************)
(* Price cache                                                             *)
(***************************************************************************)
TimeSteps == {CACHE_TTL - 1, CACHE_TTL, CACHE_TTL + 1}

\* The bodies the price endpoint answers with.
PriceBodies == {[price |-> "450.00"], [price |-> Null]}

cacheKey(scripCode, symbol) ==
    scripCode \o "_" \o (IF symbol = Null THEN "" ELSE symbol)

\* A cache test that also takes an entry written exactly CACHE_TTL ago.
servedFromCacheInclusive(cache, key, t) ==
    cache[key].present /\ t - cache[key].timestamp <= CACHE_TTL

\* fetchStockPrice up to its first await: TRUE when the cached value is
\* returned, FALSE when a request is sent.
servedFromCache(cache, key, t) ==
    cache[key].present /\ t - cache[key].timestamp < CACHE_TTL

\* renderAnnouncement inserts each card at the top of the list: the card of
\* a record with a symbol is then the one that holds the first element with
\* the id units-<scrip code>.
RECURSIVE renderCards(_, _)
renderCards(c, rendered) ==
    IF Len(rendered) = 0 THEN c
    ELSE IF extractSymbol(Head(rendered)) = Null
    THEN renderCards(c, Tail(rendered))
    ELSE renderCards([c EXCEPT ![Head(rendered).SCRIP_CD] =
                         NewCard(extractSymbol(Head(rendered)))],
                     Tail(rendered))

\* renderAnnouncement inserts each card before the first child of
\* announcementsList: the ids of the cards from top to bottom.
RECURSIVE renderList(_, _)
renderList(list, rendered) ==
    IF Len(rendered) = 0 THEN list
    ELSE renderList(<<Head(rendered).id>> \o list, Tail(rendered))

\* renderAnnouncement calls fetchStockPrice for a card that has a scrip code.
RECURSIVE renderLookups(_, _, _)
renderLookups(rendered, cache, t) ==
    IF Len(rendered) = 0 THEN <<>>
    ELSE LET a == Head(rendered)
             key == cacheKey(a.SCRIP_CD, extractSymbol(a))
             rest == renderLookups(Tail(rendered), cache, t)
         IN IF a.SCRIP_CD = "" THEN rest
            ELSE <<[key |-> key, served |-> servedFromCache(cache, key, t),
                     value |-> IF servedFromCache(cache, key, t)
                               THEN Returned(cache[key].data) ELSE ReturnedNull]>> \o rest

Requests(lookups, k) ==
    Cardinality({i \in 1..Len(lookups) : lookups[i].key = k /\ ~lookups[i].served})

\* A lookup that writes its result to the entry of every key.
storeResultEverywhere(cache, k, outcome, body, t) ==
    IF outcome = "ok"
    THEN [j \in DOMAIN cache |-> [present |-> TRUE, data |-> body, timestamp |-> t]]
    ELSE cache

\* A lookup that writes its cache entry whatever the outcome.
storeResultAlways(cache, k, outcome, body, t) ==
    [cache EXCEPT ![k] = [present |-> TRUE, data |-> body, timestamp |-> t]]

\* fetchStockPrice after its request resolved: stockPriceCache.set only in
\* the response.ok branch.
storeResult(cache, k, outcome, body, t) ==
    IF outcome = "ok"
    THEN [cache EXCEPT ![k] = [present |-> TRUE, data |-> body, timestamp |-> t]]
    ELSE cache

\* What fetchStockPrice returns after its request resolved: the body of a
\* response with a success status, null otherwise.
fetchResult(outcome, body) ==
    IF outcome = "ok" THEN Returned(body) ELSE ReturnedNull

\* The request of a fetchStockPrice call resolves: with a success status and a
\* body, with another status, or with a network error.
PriceResolve(k, outcome, body) ==
    /\ UNCHANGED <<kiteAuthenticated, cards, orders>>
    /\ priceCalls[k] > 0
    /\ priceCalls' = [priceCalls EXCEPT ![k] = @ - 1]
    /\ stockPriceCache' = storeResult(stockPriceCache, k, outcome, body, now)
    /\ last' = [Step("fetchStockPrice") EXCEPT !.key = k, !.ok = (outcome = "ok"),
                                                !.returned = fetchResult(outcome, body),
                                                !.monitoring = isMonitoring]
    /\ UNCHANGED <<isMonitoring, pollInterval, timers, seenAnnouncementIds,
                   allAnnouncements, soundEnabled, status, fetches, now>>

Tick(d) ==
    /\ UNCHANGED <<kiteAuthenticated, cards, orders>>
    /\ now + d <= MaxTime
    /\ now' = now + d
    /\ last' = [Step("tick") EXCEPT !.monitoring = isMonitoring]
    /\ UNCHANGED <<isMonitoring, pollInterval, timers, seenAnnouncementIds,
                   allAnnouncements, soundEnabled, stockPriceCache, status,
                   fetches, priceCalls>>

(***************************************************************************)
(* The price on the card.  A JavaScript number is null, NaN, or a value    *)
(* kept in hundredths (paise); the texts parsed have at most two decimals  *)
(* and no exponent.                                                        *)
(***************************************************************************)
NullPrice == [kind |-> "null", paise |-> 0]

NaN == [kind |-> "nan", paise |-> 0]

Num(paise) == [kind |-> "num", paise |-> paise]

DigitValue(c) == IndexIn(c, "0123456789") - 1

\* The longest prefix of s made of decimal digits.
RECURSIVE leadingDigits(_)
leadingDigits(s) ==
    IF Len(s) > 0 /\ CharAt(s, 1) \in Digits
    THEN CharAt(s, 1) \o leadingDigits(Tail(s))
    ELSE ""

\* The value of a text of decimal digits.
RECURSIVE decimalValue(_)
decimalValue(d) ==
    IF Len(d) = 0 THEN 0
    ELSE decimalValue(SubSeq(d, 1, Len(d) - 1)) * 10 + DigitValue(CharAt(d, Len(d)))

\* The digits after the decimal point of u, whose integer part is ip.
fractionDigits(u, ip) ==
    IF Len(u) > Len(ip) /\ CharAt(u, Len(ip) + 1) = "."
    THEN leadingDigits(SubSeq(u, Len(ip) + 2, Len(u)))
    ELSE ""

\* parseFloat of an unsigned text u with integer digits ip and fraction
\* digits fp: NaN when there is no digit at all.
unsignedValue(ip, fp) ==
    IF Len(ip) = 0 /\ Len(fp) = 0 THEN NaN
    ELSE Num(decimalValue(ip) * 100 + decimalValue(SubSeq(fp \o "00", 1, 2)))

unsignedFloat(u) == unsignedValue(leadingDigits(u), fractionDigits(u, leadingDigits(u)))

negate(v) == IF v.kind = "num" THEN Num(0 - v.paise) ELSE v

\* parseFloat(text): leading white space is skipped, a sign is taken, the
\* longest decimal literal is read and what follows it is ignored.
signedFloat(t) ==
    IF Len(t) > 0 /\ CharAt(t, 1) = "-" THEN negate(unsignedFloat(Tail(t)))
    ELSE IF Len(t) > 0 /\ CharAt(t, 1) = "+" THEN unsignedFloat(Tail(t))
    ELSE unsignedFloat(t)

parseFloat(text) == signedFloat(trimStart(text))

\* if (priceData.X): a field that is there and is not the empty text.
Truthy(field) == field # Null /\ field # ""

\* A body of the price endpoint that is an object: the fields that
\* extractPrice reads, Null for a field that is not there.
PriceBody(p, c, l, lp, cr, w) ==
    [isArray |-> FALSE, elems |-> <<>>, price |-> p, CurrentPrice |-> c,
     LTP |-> l, LastPrice |-> lp, CurrRate |-> cr, WAP |-> w]

\* A body that is an array of objects: it has none of the fields.
ArrayPriceBody(elems) ==
    [isArray |-> TRUE, elems |-> elems, price |-> Null, CurrentPrice |-> Null,
     LTP |-> Null, LastPrice |-> Null, CurrRate |-> Null, WAP |-> Null]

\* extractPrice on a body d: the first field that is there decides.
RECURSIVE extractPriceOf(_)
extractPriceOf(d) ==
    IF d.price # Null THEN parseFloat(d.price)
    ELSE IF Truthy(d.CurrentPrice) THEN parseFloat(d.CurrentPrice)
    ELSE IF Truthy(d.LTP) THEN parseFloat(d.LTP)
    ELSE IF Truthy(d.LastPrice) THEN parseFloat(d.LastPrice)
    ELSE IF Truthy(d.CurrRate) THEN parseFloat(d.CurrRate)
    ELSE IF Truthy(d.WAP) THEN parseFloat(d.WAP)
    ELSE IF d.isArray /\ Len(d.elems) > 0 THEN extractPriceOf(d.elems[1])
    ELSE NullPrice

\* extractPrice(priceData), priceData being what fetchStockPrice returned:
\* null, or a body.
extractPrice(priceData) ==
    IF priceData.isNull THEN NullPrice ELSE extractPriceOf(priceData.data)

investmentAmount == 3000

\* A card that rounds the number of units up.
priceCardRoundingUp(price) ==
    IF price.kind = "num" /\ price.paise > 0
    THEN [price |-> "value",
          units |-> "shares",
          count |-> (investmentAmount * 100 + price.paise - 1) \div price.paise,
          remaining |-> investmentAmount * 100
              - ((investmentAmount * 100 + price.paise - 1) \div price.paise) * price.paise,
          remainingShown |-> FALSE]
    ELSE [price |-> "unavailable", units |-> "hidden", count |-> 0,
          remaining |-> 0, remainingShown |-> FALSE]

\* The units and the remaining amount (in paise) that the callback computes.
unitsFor(paise) == (investmentAmount * 100) \div paise

remainingFor(paise) == investmentAmount * 100 - unitsFor(paise) * paise

\* The callback that renderAnnouncement gives to fetchStockPrice(...).then:
\* what the price element shows ("value" or "unavailable"), what the units
\* element shows ("shares", "tooHigh", or "hidden" when it is not displayed),
\* the numbers computed and whether the remaining amount is shown.
priceCard(price) ==
    IF price.kind = "num" /\ price.paise > 0
    THEN [price |-> "value",
          units |-> IF unitsFor(price.paise) > 0 THEN "shares" ELSE "tooHigh",
          count |-> unitsFor(price.paise),
          remaining |-> remainingFor(price.paise),
          remainingShown |-> unitsFor(price.paise) > 0 /\ remainingFor(price.paise) > 0]
    ELSE [price |-> "unavailable", units |-> "hidden", count |-> 0,
          remaining |-> 0, remainingShown |-> FALSE]

\* The texts of the price fields of a body.
PriceTexts ==
    {"450.00", "450", "450.5", "3000", "3000.01", "2999.99", "1500", "1",
     "0.01", "12.5", "0", "0.00", "-5", "-0.5", "", "abc", " 45", "45abc",
     ".5", "+7", "3500", "299999.99"}

\* What fetchStockPrice hands to the callback: null, or a body with some of
\* the fields that extractPrice reads.
PriceData ==
    {ReturnedNull}
    \cup {Returned(PriceBody(p, c, l, Null, Null, Null)) :
            p \in PriceTexts \cup {Null}, c \in {Null, "", "450.00", "0"},
            l \in {Null, "12.5"}}
    \cup {Returned(PriceBody(Null, Null, l, lp, cr, w)) :
            l \in {Null, "abc"}, lp \in {Null, "abc", "9"}, cr \in {Null, "8"},
            w \in {Null, "x", "7"}}
    \cup {Returned(ArrayPriceBody(e)) :
            e \in {<<>>, <<PriceBody("450.00", Null, Null, Null, Null, Null)>>,
                   <<PriceBody(Null, Null, Null, Null, Null, "7"),
                     PriceBody("1", Null, Null, Null, Null, Null)>>}}

\* The promise of fetchStockPrice resolves with priceData and the callback
\* fills the card.
ShowPrice(priceData) ==
    /\ UNCHANGED <<kiteAuthenticated, cards, orders>>
    /\ last' = [Step("showPrice") EXCEPT
                    !.returned = priceData,
                    !.price = extractPrice(priceData),
                    !.card = priceCard(extractPrice(priceData)),
                    !.monitoring = isMonitoring]
    /\ UNCHANGED <<isMonitoring, pollInterval, timers, seenAnnouncementIds,
                   allAnnouncements, soundEnabled, stockPriceCache, status,
                   fetches, priceCalls, now>>

(***************************************************************************)
(* The orders.  The text of the units element is the text that the         *)
(* callback writes, with one space for every run of white space.           *)
(***************************************************************************)
\* amount.toFixed(2), for an amount in paise that is not negative.
toFixed2(paise) ==
    ToString(paise \div 100) \o "."
        \o (IF paise % 100 < 10 THEN "0" ELSE "") \o ToString(paise % 100)

\* unitsElement.textContent after the callback showed card c, old being the
\* text before: an element that is hidden keeps its text.
unitsText(c, old) ==
    IF c.units = "shares"
    THEN "With ₹" \o ToString(investmentAmount) \o ": " \o ToString(c.count)
            \o " share" \o (IF c.count # 1 THEN "s" ELSE "")
            \o (IF c.remainingShown
                THEN " (₹" \o toFixed2(c.remaining) \o " remaining)" ELSE "")
    ELSE IF c.units = "tooHigh"
    THEN "Price too high for ₹" \o ToString(investmentAmount) \o " investment"
    ELSE old

\* /(\d+)\s+share/ after its capture group
sharesSuffix == <<Cls({" "}, 1), Alt(<<"share">>)>>

\* unitsText.match(/(\d+)\s+share/)[1]: the digits captured by the leftmost
\* match, or Null when the text has no match.
RECURSIVE sharesGroupLen(_, _, _)
sharesGroupLen(text, start, k) ==
    IF k < 1 THEN Null
    ELSE IF MatchAt(sharesSuffix, text, start + k) # 0
         THEN SubSeq(text, start, start + k - 1)
         ELSE sharesGroupLen(text, start, k - 1)

RECURSIVE sharesGroupFrom(_, _)
sharesGroupFrom(text, pos) ==
    IF pos > Len(text) THEN Null
    ELSE IF sharesGroupLen(text, pos, RunLen(Digits, FALSE, text, pos)) # Null
    THEN sharesGroupLen(text, pos, RunLen(Digits, FALSE, text, pos))
    ELSE sharesGroupFrom(text, pos + 1)

\* placeKiteOrder, the quantity: 1, or the number in front of "share" in the
\* text of the units element.
orderQuantity(card) ==
    IF card.present /\ sharesGroupFrom(card.units, 1) # Null
    THEN decimalValue(sharesGroupFrom(card.units, 1))
    ELSE 1

\* The body that placeKiteOrder and testTataSilverOrder post.
Order(symbol, quantity) ==
    [tradingsymbol |-> symbol, exchange |-> "NSE", quantity |-> quantity,
     transaction_type |-> "BUY", order_type |-> "MARKET", product |-> "CNC",
     variety |-> "regular"]

\* The prices handed to the callback of a card in the specification of the
\* orders.
CardPriceData ==
    {ReturnedNull} \cup
    {Returned(PriceBody(p, Null, Null, Null, Null, Null)) :
        p \in {"450.00", "3000.01", "abc"}}

\* A callback that also buys what it shows.
FillCardBuying(code, priceData) ==
    /\ cards[code].present /\ ~cards[code].loaded
    /\ Len(orders) < MaxOrders
    /\ cards' = [cards EXCEPT ![code] =
            [@ EXCEPT !.loaded = TRUE, !.price = extractPrice(priceData),
                      !.units = unitsText(priceCard(extractPrice(priceData)), @)]]
    /\ orders' = Append(orders, Order(cards[code].symbol,
                                       priceCard(extractPrice(priceData)).count))
    /\ last' = [Step("showPrice") EXCEPT
                    !.key = code, !.returned = priceData,
                    !.price = extractPrice(priceData),
                    !.card = priceCard(extractPrice(priceData)),
                    !.monitoring = isMonitoring]
    /\ UNCHANGED <<isMonitoring, pollInterval, timers, seenAnnouncementIds,
                   allAnnouncements, soundEnabled, stockPriceCache, status,
                   fetches, priceCalls, now, kiteAuthenticated>>

\* The callback of the card of a scrip code runs with priceData, once, and
\* writes the price element and the units element of the card.
FillCard(code, priceData) ==
    /\ cards[code].present /\ ~cards[code].loaded
    /\ cards' = [cards EXCEPT ![code] =
            [@ EXCEPT !.loaded = TRUE, !.price = extractPrice(priceData),
                      !.units = unitsText(priceCard(extractPrice(priceData)), @)]]
    /\ last' = [Step("showPrice") EXCEPT
                    !.key = code, !.returned = priceData,
                    !.price = extractPrice(priceData),
                    !.card = priceCard(extractPrice(priceData)),
                    !.monitoring = isMonitoring]
    /\ UNCHANGED <<isMonitoring, pollInterval, timers, seenAnnouncementIds,
                   allAnnouncements, soundEnabled, stockPriceCache, status,
                   fetches, priceCalls, now, kiteAuthenticated, orders>>

\* checkKiteStatus gets its response: kiteAuthenticated = data.authenticated.
checkKiteStatus(authenticated) ==
    /\ kiteAuthenticated' = authenticated
    /\ last' = [Step("checkKiteStatus") EXCEPT !.ok = authenticated,
                                                !.monitoring = isMonitoring]
    /\ UNCHANGED <<isMonitoring, pollInterval, timers, seenAnnouncementIds,
                   allAnnouncements, soundEnabled, stockPriceCache, status,
                   fetches, priceCalls, now, cards, orders>>

\* placeKiteOrder, the onclick handler of the Buy button of a card, up to
\* its first await: without a session it opens the login, with one it posts
\* the order.
placeKiteOrder(code) ==
    /\ cards[code].present
    /\ Len(orders) < MaxOrders
    /\ orders' = IF kiteAuthenticated
                 THEN Append(orders, Order(cards[code].symbol,
                                           orderQuantity(cards[code])))
                 ELSE orders
    /\ last' = [Step("placeKiteOrder") EXCEPT !.key = code,
                                               !.ok = kiteAuthenticated,
                                               !.monitoring = isMonitoring]
    /\ UNCHANGED <<isMonitoring, pollInterval, timers, seenAnnouncementIds,
                   allAnnouncements, soundEnabled, stockPriceCache, status,
                   fetches, priceCalls, now, kiteAuthenticated, cards>>

\* testTataSilverOrder, the click handler of the test button.
testTataSilverOrder ==
    /\ Len(orders) < MaxOrders
    /\ orders' = IF kiteAuthenticated
                 THEN Append(orders, Order("TATSILV", 1))
                 ELSE orders
    /\ last' = [Step("testTataSilverOrder") EXCEPT !.ok = kiteAuthenticated,
                                                    !.monitoring = isMonitoring]
    /\ UNCHANGED <<isMonitoring, pollInterval, timers, seenAnnouncementIds,
                   allAnnouncements, soundEnabled, stockPriceCache, status,
                   fetches, priceCalls, now, kiteAuthenticated, cards>>

(***************************************************************************)
(* fetchAnnouncements                                                      *)
(***************************************************************************)
\* handleFetchError(error): the status it displays.
handleFetchError(error) == updateStatus("paused", "Error: " \o error.kind)

\* A chain that keeps the first error instead of the last one.
keepFirstError(f, err) ==
    IF f.lastError = NoError THEN [f EXCEPT !.lastError = err] ELSE f

\* lastError = err, in the else branch or the catch clause of a strategy.
setLastError(f, err) == [f EXCEPT !.lastError = err]

\* A chain that requests a failed strategy a second time before it moves on.
FallbackRetrying(f) ==
    IF Len(f.req) < 2 * f.stage
    THEN [f EXCEPT !.req = Append(@, f.stage)]
    ELSE IF f.stage < NumStrategies
    THEN [f EXCEPT !.stage = @ + 1, !.req = Append(@, f.stage + 1)]
    ELSE IdleFetch

\* The call f after a strategy failed: the next strategy is requested, or,
\* after the last one, the call is over.
Fallback(f) ==
    IF f.stage < NumStrategies
    THEN [f EXCEPT !.stage = @ + 1, !.req = Append(@, f.stage + 1)]
    ELSE IdleFetch

FailureKinds == {"http", "network", "parse"}

\* A failure handler that stops the monitoring when the last strategy failed.
FetchFailureStopping(s, kind) ==
    /\ UNCHANGED <<kiteAuthenticated, cards, orders>>
    /\ fetches[s].stage > 0
    /\ LET f == fetches[s]
           g == setLastError(f, [src |-> f.stage, kind |-> kind])
           over == f.stage = NumStrategies
       IN /\ fetches' = [fetches EXCEPT ![s] = Fallback(g)]
          /\ status' = IF over THEN handleFetchError(g.lastError) ELSE status
          /\ isMonitoring' = IF over THEN FALSE ELSE isMonitoring
          /\ timers' = IF over THEN timers \ {pollInterval} ELSE timers
          /\ pollInterval' = IF over THEN NoTimer ELSE pollInterval
          /\ last' = [Step("fetchAnnouncements") EXCEPT
                        !.strategy = f.stage, !.monitoring = isMonitoring,
                        !.reported = over,
                        !.error = IF over THEN g.lastError ELSE NoError,
                        !.ended = over, !.req = f.req, !.handedCount = f.handed]
    /\ UNCHANGED <<seenAnnouncementIds, allAnnouncements, soundEnabled,
                   stockPriceCache, priceCalls, now>>

\* The outstanding request of call s fails: a status that is not ok ("http"),
\* a rejected fetch ("network"), or a body that does not parse ("parse").
FetchFailure(s, kind) ==
    /\ UNCHANGED <<kiteAuthenticated, cards, orders>>
    /\ fetches[s].stage > 0
    /\ LET f == fetches[s]
           g == setLastError(f, [src |-> f.stage, kind |-> kind])
           over == f.stage = NumStrategies
       IN /\ fetches' = [fetches EXCEPT ![s] = Fallback(g)]
          /\ status' = IF over THEN handleFetchError(g.lastError) ELSE status
          /\ last' = [Step("fetchAnnouncements") EXCEPT
                        !.strategy = f.stage, !.monitoring = isMonitoring,
                        !.reported = over,
                        !.error = IF over THEN g.lastError ELSE NoError,
                        !.ended = over, !.req = f.req, !.handedCount = f.handed]
    /\ UNCHANGED <<isMonitoring, pollInterval, timers, seenAnnouncementIds,
                   allAnnouncements, soundEnabled, stockPriceCache, priceCalls, now>>

\* The outstanding request of call s answers with a success status and a
\* body that parses; the body is handed to processApiResponse, inside the try
\* block of the strategy.
FetchSuccess(s, body) ==
    /\ UNCHANGED <<kiteAuthenticated, orders>>
    /\ fetches[s].stage > 0
    /\ \E r \in {processApiResponse(body, seenAnnouncementIds, allAnnouncements,
                                    soundEnabled, status)} :
       \E lookups \in {renderLookups(r.rendered, stockPriceCache, now)} :
       LET f == fetches[s]
           h == [f EXCEPT !.handed = @ + 1]
           g == setLastError(h, [src |-> f.stage, kind |-> "process"])
           over == ~r.threw \/ f.stage = NumStrategies
           reported == r.threw /\ f.stage = NumStrategies
       IN /\ \A k \in PriceKeys : priceCalls[k] + Requests(lookups, k) <= MaxPriceInFlight
          /\ seenAnnouncementIds' = r.seen
          /\ allAnnouncements' = r.all
          /\ cards' = renderCards(cards, r.rendered)
          /\ priceCalls' = [k \in PriceKeys |-> priceCalls[k] + Requests(lookups, k)]
          /\ fetches' = [fetches EXCEPT ![s] = IF r.threw THEN Fallback(g) ELSE IdleFetch]
          /\ status' = IF reported THEN handleFetchError(g.lastError) ELSE r.status
          /\ last' = [Step("fetchAnnouncements") EXCEPT
                        !.strategy = f.stage, !.monitoring = isMonitoring,
                        !.handed = TRUE, !.wellFormed = r.wellFormed,
                        !.batch = r.batch, !.new = r.new, !.threw = r.threw,
                        !.sound = r.sound, !.lookups = lookups,
                        !.reported = reported,
                        !.error = IF reported THEN g.lastError ELSE NoError,
                        !.ended = over, !.req = f.req, !.handedCount = h.handed,
                        !.ever = IF last.track
                                 THEN @ \cup ingestedKeys(r.batch) ELSE @,
                        !.everBefore = last.ever,
                        !.data = IF last.track THEN body ELSE @,
                        !.list = IF last.track THEN renderList(@, r.rendered) ELSE @,
                        !.sinceClear = IF last.track
                                       THEN @ \cup ingestedKeys(r.batch) ELSE @]
    /\ UNCHANGED <<isMonitoring, pollInterval, timers, soundEnabled,
                   stockPriceCache, now>>

(***************************************************************************)
(* The other handlers                                                      *)
(***************************************************************************)
\* A clear that also empties the price cache.
clearAllWithCache(confirmed) ==
    /\ IF confirmed
       THEN /\ allAnnouncements' = <<>> /\ seenAnnouncementIds' = {}
            /\ cards' = [c \in CardCodes |-> NoCard]
            /\ stockPriceCache' = [k \in PriceKeys |-> NoEntry]
       ELSE UNCHANGED <<allAnnouncements, seenAnnouncementIds, cards, stockPriceCache>>
    /\ UNCHANGED <<kiteAuthenticated, orders>>
    /\ last' = [Step("clearAll") EXCEPT !.confirmed = confirmed,
                                         !.monitoring = isMonitoring,
                                         !.list = IF confirmed THEN <<>> ELSE @,
                                         !.sinceClear = IF confirmed THEN {} ELSE @]
    /\ UNCHANGED <<isMonitoring, pollInterval, timers, soundEnabled,
                   status, fetches, priceCalls, now>>

\* clearAll, with the answer the user gives to its confirm dialog.
clearAll(confirmed) ==
    /\ IF confirmed
       THEN /\ allAnnouncements' = <<>> /\ seenAnnouncementIds' = {}
            /\ cards' = [c \in CardCodes |-> NoCard]
       ELSE UNCHANGED <<allAnnouncements, seenAnnouncementIds, cards>>
    /\ UNCHANGED <<kiteAuthenticated, orders>>
    /\ last' = [Step("clearAll") EXCEPT !.confirmed = confirmed,
                                         !.monitoring = isMonitoring,
                                         !.list = IF confirmed THEN <<>> ELSE @,
                                         !.sinceClear = IF confirmed THEN {} ELSE @]
    /\ UNCHANGED <<isMonitoring, pollInterval, timers, soundEnabled,
                   stockPriceCache, status, fetches, priceCalls, now>>

\* A sound check box that also forgets the records seen.
SoundToggleForgetting ==
    /\ UNCHANGED <<kiteAuthenticated, cards, orders>>
    /\ soundEnabled' = ~soundEnabled
    /\ seenAnnouncementIds' = {}
    /\ last' = [Step("soundToggle") EXCEPT !.monitoring = isMonitoring]
    /\ UNCHANGED <<isMonitoring, pollInterval, timers, allAnnouncements,
                   stockPriceCache, status, fetches, priceCalls, now>>

\* The change handler of the sound check box.
SoundToggle ==
    /\ UNCHANGED <<kiteAuthenticated, cards, orders>>
    /\ soundEnabled' = ~soundEnabled
    /\ last' = [Step("soundToggle") EXCEPT !.monitoring = isMonitoring]
    /\ UNCHANGED <<isMonitoring, pollInterval, timers, seenAnnouncementIds,
                   allAnnouncements, stockPriceCache, status, fetches,
                   priceCalls, now>>

\* The change handler of the amount filter: filterAnnouncements shows or
\* hides the cards and touches no variable of the script.
FilterToggle(showOnlyWithAmounts) ==
    /\ last' = [Step("filterAnnouncements") EXCEPT !.monitoring = isMonitoring]
    /\ UNCHANGED <<isMonitoring, pollInterval, timers, seenAnnouncementIds,
                   allAnnouncements, soundEnabled, stockPriceCache, status,
                   fetches, priceCalls, now, kiteAuthenticated, cards, orders>>

\* No fetchAnnouncements call is in flight.
Quiet == \A s \in Slots : fetches[s].stage = 0

\* The user starts the monitoring, and the timer fires, when the call of the
\* poll before has returned.
StartWhenQuiet == Quiet /\ ToggleStart

TickWhenQuiet == Quiet /\ TimerTick

(***************************************************************************)
(* Spec: the scheduler and the ingestion, with every response body of      *)
(* Bodies.  The environment is restricted: every request answers with a    *)
(* success status, a request resolves before the next poll starts, and     *)
(* the records carry no scrip code.                                        *)
(***************************************************************************)
Next ==
    \/ StartWhenQuiet
    \/ ToggleStop
    \/ TickWhenQuiet
    \/ \E s \in Slots, body \in Bodies : FetchSuccess(s, body)
    \/ \E confirmed \in BOOLEAN : clearAll(confirmed)

Spec == Init /\ [][Next]_vars

(***************************************************************************)
(* SpecChain: the fallback chain of fetchAnnouncements, with every outcome *)
(* of every request and a few response bodies.                             *)
(***************************************************************************)
NextChain ==
    \/ StartWhenQuiet
    \/ ToggleStop
    \/ TickWhenQuiet
    \/ \E s \in Slots, kind \in FailureKinds : FetchFailure(s, kind)
    \/ \E s \in Slots, body \in ChainBodies : FetchSuccess(s, body)

SpecChain == Init /\ [][NextChain]_vars

(***************************************************************************)
(* SpecPrice: every handler of the page, with the clock and the price      *)
(* lookups, over a feed that delivers a record with a scrip code.          *)
(***************************************************************************)
NextPrice ==
    \/ StartWhenQuiet
    \/ ToggleStop
    \/ TickWhenQuiet
    \/ \E s \in Slots : FetchFailure(s, "http")
    \/ \E s \in Slots, body \in PriceFeedBodies : FetchSuccess(s, body)
    \/ \E k \in PriceKeys, body \in PriceBodies : PriceResolve(k, "ok", body)
    \/ \E k \in PriceKeys, outcome \in {"http", "network"} :
            PriceResolve(k, outcome, [price |-> Null])
    \/ \E d \in TimeSteps : Tick(d)
    \/ \E confirmed \in BOOLEAN : clearAll(confirmed)
    \/ SoundToggle

SpecPrice == Init /\ [][NextPrice]_vars

(***************************************************************************)
(* SpecOverlap: the toggle button, the timer and the polls, where a poll   *)
(* starts while the calls of earlier polls are still waiting for their     *)
(* responses, and the responses arrive in any order.                       *)
(***************************************************************************)
NextOverlap ==
    \/ ToggleStart
    \/ ToggleStop
    \/ TimerTick
    \/ \E s \in Slots : FetchFailure(s, "network")
    \/ \E s \in Slots, body \in OverlapBodies : FetchSuccess(s, body)
    \/ \E confirmed \in BOOLEAN : clearAll(confirmed)

SpecOverlap == Init /\ [][NextOverlap]_vars

(***************************************************************************)
(* SpecCalls: startMonitoring and stopMonitoring called as functions, in   *)
(* any state, without the test of toggleMonitoring.                        *)
(***************************************************************************)
CallStartMonitoring ==
    /\ UNCHANGED <<kiteAuthenticated, cards, orders>>
    /\ HasFreeSlot
    /\ Cardinality(timers) < MaxTimers
    /\ startMonitoring
    /\ last' = [Step("startMonitoring") EXCEPT !.monitoring = isMonitoring]
    /\ UNCHANGED <<seenAnnouncementIds, allAnnouncements, soundEnabled,
                   stockPriceCache, priceCalls, now>>

CallStopMonitoring ==
    /\ UNCHANGED <<kiteAuthenticated, cards, orders>>
    /\ stopMonitoring
    /\ last' = [Step("stopMonitoring") EXCEPT !.monitoring = isMonitoring]
    /\ UNCHANGED <<seenAnnouncementIds, allAnnouncements, soundEnabled,
                   stockPriceCache, priceCalls, now>>

NextCalls ==
    \/ CallStartMonitoring
    \/ CallStopMonitoring
    \/ TimerTick
    \/ \E s \in Slots : FetchFailure(s, "network")
    \/ \E s \in Slots, body \in ChainBodies : FetchSuccess(s, body)

SpecCalls == Init /\ [][NextCalls]_vars

(***************************************************************************)
(* SpecLife: polls, stops, starts and clears, with the history of the      *)
(* composite keys that the ingestion came to since the page loaded.        *)
(***************************************************************************)
NextLife ==
    \/ ToggleStart
    \/ ToggleStop
    \/ TimerTick
    \/ \E s \in Slots, body \in LifeBodies : FetchSuccess(s, body)
    \/ \E confirmed \in BOOLEAN : clearAll(confirmed)

SpecLife == InitLife /\ [][NextLife]_vars

(***************************************************************************)
(* SpecShape: the polls and the clears over every body of ShapeBodies,     *)
(* with the body of each response kept in the history.                     *)
(***************************************************************************)
NextShape ==
    \/ StartWhenQuiet
    \/ ToggleStop
    \/ TickWhenQuiet
    \/ \E s \in Slots, body \in ShapeBodies : FetchSuccess(s, body)
    \/ \E confirmed \in BOOLEAN : clearAll(confirmed)

SpecShape == InitLife /\ [][NextShape]_vars

(***************************************************************************)
(* SpecFair: the cycles that fail.  Every request of a poll fails in one   *)
(* of the three ways or delivers a body, every price lookup fails, and the *)
(* environment is fair: a registered interval timer keeps firing, and a    *)
(* request that is waiting ends with a response or with an error.          *)
(***************************************************************************)
FetchResolves ==
    \/ \E s \in Slots, kind \in FailureKinds : FetchFailure(s, kind)
    \/ \E s \in Slots, body \in FailingBodies : FetchSuccess(s, body)

PriceFails ==
    \E k \in PriceKeys, outcome \in {"http", "network"} :
        PriceResolve(k, outcome, [price |-> Null])

NextFair ==
    \/ ToggleStart
    \/ ToggleStop
    \/ TimerTick
    \/ FetchResolves
    \/ PriceFails

SpecFair ==
    /\ Init /\ [][NextFair]_vars
    /\ WF_vars(TimerTick)
    /\ WF_vars(FetchResolves)
    /\ WF_vars(PriceFails)

(***************************************************************************)
(* SpecOrder: the polls, the price lookups, the cards and their callbacks, *)
(* the session with the broker and the clicks on the Buy buttons and on    *)
(* the test button.                                                        *)
(***************************************************************************)
NextOrder ==
    \/ StartWhenQuiet
    \/ ToggleStop
    \/ TickWhenQuiet
    \/ \E s \in Slots : FetchSuccess(s, ArrayBody(<<RecP>>))
    \/ \E k \in PriceKeys, body \in PriceBodies : PriceResolve(k, "ok", body)
    \/ \E k \in PriceKeys : PriceResolve(k, "network", [price |-> Null])
    \/ \E code \in CardCodes, priceData \in CardPriceData : FillCard(code, priceData)
    \/ \E authenticated \in BOOLEAN : checkKiteStatus(authenticated)
    \/ \E code \in CardCodes : placeKiteOrder(code)
    \/ testTataSilverOrder
    \/ \E confirmed \in BOOLEAN : clearAll(confirmed)

SpecOrder == Init /\ [][NextOrder]_vars

(***************************************************************************)
(* SpecUnits: the card of one announcement, with every value of PriceData  *)
(* handed to its callback.                                                 *)
(***************************************************************************)
\* The inputs of the text functions: a headline with a detail text, or a URL.
InitText ==
    /\ InitState
    /\ \E i \in TextInputs \cup {<<u>> : u \in UrlInputs} :
          last = [InitStep EXCEPT !.input = i]

\* extractRupeeAmount applied to a record with the drawn headline and detail.
ExtractAmount ==
    /\ last.op = "init"
    /\ Len(last.input) = 2
    /\ last' = [Step("extractRupeeAmount") EXCEPT
                    !.input = last.input,
                    !.output = matchRupeeAmount(last.input[1], last.input[2])]
    /\ UNCHANGED <<isMonitoring, pollInterval, timers, seenAnnouncementIds,
                   allAnnouncements, soundEnabled, stockPriceCache, status,
                   fetches, priceCalls, now, kiteAuthenticated, cards, orders>>

\* extractSymbol applied to a record with the drawn detail URL.
ExtractSymbol ==
    /\ last.op = "init"
    /\ Len(last.input) = 1
    /\ last' = [Step("extractSymbol") EXCEPT
                    !.input = last.input,
                    !.output = matchSymbol(last.input[1])]
    /\ UNCHANGED <<isMonitoring, pollInterval, timers, seenAnnouncementIds,
                   allAnnouncements, soundEnabled, stockPriceCache, status,
                   fetches, priceCalls, now, kiteAuthenticated, cards, orders>>

NextText == ExtractAmount \/ ExtractSymbol

SpecText == InitText /\ [][NextText]_vars

(***************************************************************************)
(* SpecIds: createAnnouncementId applied to two records.                   *)
(***************************************************************************)
InitIds ==
    /\ InitState
    /\ \E a \in IdRecords, b \in IdRecords : last = [InitStep EXCEPT !.batch = <<a, b>>]

CreateIds ==
    /\ last.op = "init"
    /\ Len(last.batch) = 2
    /\ last' = [Step("createAnnouncementId") EXCEPT
                    !.batch = last.batch,
                    !.ids = <<encodeKey(compositeKey(last.batch[1])),
                              encodeKey(compositeKey(last.batch[2]))>>]
    /\ UNCHANGED <<isMonitoring, pollInterval, timers, seenAnnouncementIds,
                   allAnnouncements, soundEnabled, stockPriceCache, status,
                   fetches, priceCalls, now, kiteAuthenticated, cards, orders>>

NextIds == CreateIds

SpecIds == InitIds /\ [][NextIds]_vars

(***************************************************************************)
(* SpecPage: every handler of the page over a feed whose records share a   *)
(* price key or have different ones, at one instant of the clock.          *)
(***************************************************************************)
NextPage ==
    \/ StartWhenQuiet
    \/ ToggleStop
    \/ TickWhenQuiet
    \/ \E s \in Slots : FetchFailure(s, "http")
    \/ \E s \in Slots, body \in PageBodies : FetchSuccess(s, body)
    \/ \E k \in PriceKeys, body \in PriceBodies : PriceResolve(k, "ok", body)
    \/ \E k \in PriceKeys : PriceResolve(k, "network", [price |-> Null])
    \/ \E confirmed \in BOOLEAN : clearAll(confirmed)
    \/ SoundToggle
    \/ \E showOnlyWithAmounts \in BOOLEAN : FilterToggle(showOnlyWithAmounts)

SpecPage == Init /\ [][NextPage]_vars

(***************************************************************************)
(* SpecCache: the price lookups of the cards, several of them waiting for  *)
(* their responses at a time, resolving in any order while the clock       *)
(* advances.                                                               *)
(***************************************************************************)
NextCache ==
    \/ StartWhenQuiet
    \/ ToggleStop
    \/ TickWhenQuiet
    \/ \E s \in Slots, body \in PageBodies : FetchSuccess(s, body)
    \/ \E k \in PriceKeys, body \in PriceBodies : PriceResolve(k, "ok", body)
    \/ \E k \in PriceKeys : PriceResolve(k, "http", [price |-> Null])
    \/ Tick(CACHE_TTL)
    \/ \E confirmed \in BOOLEAN : clearAll(confirmed)

SpecCache == Init /\ [][NextCache]_vars

NextUnits == \E priceData \in PriceData : ShowPrice(priceData)

SpecUnits == Init /\ [][NextUnits]_vars

(***************************************************************************)
(* Properties                                                              *)
(***************************************************************************)
\* The step handed a body with a Table to processApiResponse.
Pass == last.op = "fetchAnnouncements" /\ last.handed /\ last.wellFormed

\* The number of fetchAnnouncements calls that wait for a response.
InFlight(f) == Cardinality({s \in Slots : f[s].stage > 0})

IndexOf(seq, x) == CHOOSE i \in 1..Len(seq) : seq[i] = x

KeyFields(a) == <<a.SCRIP_CD, a.NEWSID, a.DT_TM, a.NEWS_SUB>>

\* C1: when a fetch resolves successfully while monitoring is stopped, its
\* result is discarded: SeenSet, Feed and the displayed status stay as they
\* were and no notification is played.
C1_StoppedFetchDiscarded ==
    [][(last'.op = "fetchAnnouncements" /\ last'.handed /\ ~isMonitoring)
        => /\ seenAnnouncementIds' = seenAnnouncementIds
           /\ allAnnouncements' = allAnnouncements
           /\ status' = status
           /\ ~last'.sound]_vars

\* C2: a batch that arrives while the Feed is empty puts its records in the
\* Feed with isNew = false and plays no notification.
C2_FirstBatchNotNew ==
    [][(Pass' /\ Len(allAnnouncements) = 0)
        => /\ ~last'.sound
           /\ \A i \in 1..Len(allAnnouncements') : ~allAnnouncements'[i].isNew]_vars

C4_ShortCircuit ==
    (last.op = "fetchAnnouncements" /\ last.handed)
        => /\ last.ended
           /\ ~last.reported
           /\ last.handedCount = 1
           /\ \A s \in Slots : fetches[s].stage = 0

\* C5: handleFetchError is called exactly when the last strategy has failed,
\* and the error it gets is the one of the last strategy, never an earlier
\* one and never an absent one.
C5_LastErrorReported ==
    /\ last.reported
        => /\ last.error.src = NumStrategies
           /\ last.error.kind # "none"
           /\ last.ended
           /\ last.req = [i \in 1..NumStrategies |-> i]
    /\ (last.op = "fetchAnnouncements" /\ last.strategy = NumStrategies
            /\ (~last.handed \/ last.threw))
        => last.reported

\* Every strategy of a call failed and the failure of the last relay was
\* reported.
C5_Witness ==
    /\ last.reported
    /\ last.error.src = NumStrategies
    /\ Len(last.req) = NumStrategies
    /\ status.state = "paused"

Reached(batch, i) ==
    /\ HasAmount(batch[i])
    /\ \A j \in 1..i : HasAmount(batch[j]) => ~createAnnouncementIdThrows(batch[j])

C8_SeenSetGrows ==
    [][~(last'.op = "clearAll" /\ last'.confirmed)
        => seenAnnouncementIds \subseteq seenAnnouncementIds']_vars

\* Every strategy of a poll failed while SeenSet held an id.
C8_Witness ==
    /\ last.op = "fetchAnnouncements"
    /\ last.reported
    /\ seenAnnouncementIds # {}

\* C9: after a pass the Feed is the new list of the pass followed by the
\* Feed as it was.
C9_FeedIsNewThenOld ==
    [][Pass' => allAnnouncements' = last'.new \o allAnnouncements]_vars

\* C10: the records of the new list are in the order of the batch, and the
\* ones inserted in the Feed are there in that order too.
C10_BatchOrderKept ==
    [][Pass' =>
        \A i, j \in 1..Len(last'.new) :
            i < j =>
                /\ IndexOf(last'.batch, RawOf(last'.new[i]))
                      < IndexOf(last'.batch, RawOf(last'.new[j]))
                /\ Len(allAnnouncements') > Len(allAnnouncements)
                      => /\ allAnnouncements'[i] = last'.new[i]
                         /\ allAnnouncements'[j] = last'.new[j]
      ]_vars

\* A pass put two records in the new list and then in the Feed.
C10_Witness ==
    /\ Pass
    /\ Len(last.new) >= 2
    /\ Len(allAnnouncements) >= Len(last.new)
    /\ SubSeq(allAnnouncements, 1, Len(last.new)) = last.new

\* C11: a response body without a Table is handed to processApiResponse and
\* changes nothing but the status text: SeenSet and the Feed stay as they
\* were, no sound is played, no later strategy is requested, and the
\* scheduler is as it was; when it was polling, it still is and its timer is
\* still registered.
C11_MalformedIsNoOp ==
    [][(last'.op = "fetchAnnouncements" /\ last'.handed /\ ~last'.wellFormed)
        => /\ seenAnnouncementIds' = seenAnnouncementIds
           /\ allAnnouncements' = allAnnouncements
           /\ ~last'.sound /\ ~last'.threw /\ ~last'.reported
           /\ last'.ended
           /\ isMonitoring' = isMonitoring
           /\ timers' = timers /\ pollInterval' = pollInterval
           /\ isMonitoring => (isMonitoring' /\ pollInterval' \in timers')
           /\ status'.state = "active"]_vars

\* A body without a Table arrived while the scheduler was polling and the
\* Feed held a record.
C11_Witness ==
    /\ last.op = "fetchAnnouncements" /\ last.handed /\ ~last.wellFormed
    /\ isMonitoring /\ pollInterval \in timers
    /\ Len(allAnnouncements) > 0
    /\ seenAnnouncementIds # {}


\* C12: a fetchStockPrice call for a key whose entry was written less than
\* 30000 ms ago returns the cached value and sends no request; a call made
\* 30000 ms or more after the entry was written sends a request, and what it
\* returns is the body of the fresh response or, when the request fails,
\* null: never the expired value.
C12_CacheTtl ==
    [][/\ \A i \in 1..Len(last'.lookups) :
             LET l == last'.lookups[i]
                 c == stockPriceCache[l.key]
             IN /\ (c.present /\ now - c.timestamp < 30000)
                      => /\ l.served
                         /\ l.value = Returned(c.data)
                /\ (c.present /\ now - c.timestamp >= 30000)
                      => /\ ~l.served
                         /\ priceCalls'[l.key] > priceCalls[l.key]
                /\ l.served => priceCalls'[l.key] = priceCalls[l.key]
       /\ (last'.op = "fetchStockPrice" /\ ~last'.ok) => last'.returned.isNull
       /\ (last'.op = "fetchStockPrice" /\ last'.ok)
             => /\ ~last'.returned.isNull
                /\ last'.returned.data = stockPriceCache'[last'.key].data
      ]_vars

\* The lookup made after an entry with a price had expired failed, and
\* returned null.
C12_Witness ==
    /\ last.op = "fetchStockPrice" /\ ~last.ok
    /\ last.returned.isNull
    /\ stockPriceCache[last.key].present
    /\ stockPriceCache[last.key].data.price # Null
    /\ now - stockPriceCache[last.key].timestamp >= 30000


\* C13: startMonitoring called while the scheduler is polling changes
\* nothing: no fetch is started and no timer is registered.
C13_StartIdempotent ==
    [][(last'.op = "startMonitoring" /\ isMonitoring)
        => /\ fetches' = fetches
           /\ timers' = timers
           /\ pollInterval' = pollInterval
           /\ isMonitoring']_vars

\* C14: the start of the monitoring begins one fetchAnnouncements call in the
\* same step, before any tick, and registers one timer; every tick of the
\* timer begins one more call; the timer stays registered for as long as the
\* scheduler is polling, and ticks only then.
C14_ImmediateThenPerTick ==
    [][/\ last'.op = "startMonitoring"
            => /\ InFlight(fetches') = InFlight(fetches) + 1
               /\ \E s \in Slots :
                     /\ fetches[s].stage = 0
                     /\ fetches'[s].stage = 1 /\ fetches'[s].req = <<1>>
                     /\ \A t \in Slots \ {s} : fetches'[t] = fetches[t]
               /\ timers = {}
               /\ Cardinality(timers') = 1
               /\ isMonitoring'
       /\ last'.op = "timer"
            => /\ isMonitoring /\ pollInterval \in timers
               /\ InFlight(fetches') = InFlight(fetches) + 1
               /\ \E s \in Slots :
                     /\ fetches[s].stage = 0
                     /\ fetches'[s].stage = 1 /\ fetches'[s].req = <<1>>
                     /\ \A t \in Slots \ {s} : fetches'[t] = fetches[t]
               /\ timers' = timers /\ isMonitoring'
       /\ isMonitoring' => (pollInterval' \in timers' /\ Cardinality(timers') = 1)
      ]_vars

\* A tick began a call while the call of the start was still waiting.
C14_Witness ==
    /\ last.op = "timer"
    /\ isMonitoring
    /\ InFlight(fetches) = 2

FailedStep ==
    \/ last.op = "fetchAnnouncements" /\ (~last.handed \/ last.threw)
    \/ last.op = "fetchStockPrice" /\ ~last.ok

\* C16: a failed request, a failed parse, a throwing ingestion and a failed
\* price lookup leave the scheduler polling with its timer registered, and
\* from every failure on, unless the user stops the monitoring, the timer
\* starts the next cycle.
C16_FailuresNeverStop ==
    /\ [][FailedStep' => /\ isMonitoring' = isMonitoring
                         /\ timers' = timers
                         /\ pollInterval' = pollInterval]_vars
    /\ [](isMonitoring => pollInterval \in timers)
    /\ (isMonitoring /\ FailedStep) ~> (~isMonitoring \/ last.op = "timer")

\* The tick after a cycle whose three strategies failed, the last one with
\* a network error, while the error is still displayed.
C16_Witness ==
    /\ isMonitoring
    /\ last.op = "timer"
    /\ status = handleFetchError([src |-> NumStrategies, kind |-> "network"])


\* The entries of the Feed that carry the id.
FeedEntries(all, id) == {j \in 1..Len(all) : all[j].id = id}

\* C17: while two calls are waiting, a call hands over its first body; a
\* record of that body whose id an earlier call put in SeenSet (no clear
\* happened since) is in the Feed once, as an entry that was notified when
\* it was added, and this pass adds and notifies it not again.
C17_OverlapAddsOnce ==
    [][(Pass' /\ last'.handedCount = 1 /\ InFlight(fetches) >= 2) =>
        \A i \in 1..Len(last'.batch) :
            (/\ HasAmount(last'.batch[i])
             /\ ~createAnnouncementIdThrows(last'.batch[i])
             /\ createAnnouncementId(last'.batch[i]) \in seenAnnouncementIds)
            => /\ \A k \in 1..Len(last'.new) :
                     last'.new[k].id # createAnnouncementId(last'.batch[i])
               /\ Cardinality(FeedEntries(allAnnouncements',
                        createAnnouncementId(last'.batch[i]))) = 1
               /\ \A j \in FeedEntries(allAnnouncements',
                        createAnnouncementId(last'.batch[i])) :
                     /\ allAnnouncements'[j].isNew
                     /\ j \in FeedEntries(allAnnouncements, allAnnouncements'[j].id)
      ]_vars


\* The pass met a record with an amount whose id was not in SeenSet.
FoundUnseen(batch, seen) ==
    \E i \in 1..Len(batch) :
        /\ HasAmount(batch[i])
        /\ \/ createAnnouncementIdThrows(batch[i])
           \/ createAnnouncementId(batch[i]) \notin seen

\* C19: a pass plays the notification, and changes the Feed, only when it
\* found an id that was not in SeenSet; it plays the notification only when
\* sound is enabled; and a pass whose records are all seen plays nothing
\* and leaves the Feed as it was.
C19_SideEffectsOnlyWhenNew ==
    [][Pass' =>
        /\ last'.sound => (soundEnabled /\ last'.new # <<>>)
        /\ last'.new # <<>> => FoundUnseen(last'.batch, seenAnnouncementIds)
        /\ ~FoundUnseen(last'.batch, seenAnnouncementIds)
              => (~last'.sound /\ allAnnouncements' = allAnnouncements)
      ]_vars


C20_UnitsForBudget ==
    last.op = "showPrice" =>
        IF last.price.kind = "num" /\ last.price.paise > 0
        THEN /\ last.card.count * last.price.paise <= 3000 * 100
             /\ (last.card.count + 1) * last.price.paise > 3000 * 100
             /\ last.card.remaining = 3000 * 100 - last.card.count * last.price.paise
             /\ last.card.remaining >= 0
             /\ last.card.remaining < last.price.paise
             /\ last.price.paise = 45000
                  => (last.card.count = 6 /\ last.card.remaining = 30000)
             /\ last.card.price = "value"
             /\ last.card.units # "hidden"
             /\ last.card.units = "shares" <=> last.card.count > 0
        ELSE /\ last.card.price = "unavailable"
             /\ last.card.units = "hidden"

\* The body holds the price 450.00 as a text, and the card shows 6 shares
\* and 300 left.
C20_Witness ==
    /\ last.op = "showPrice"
    /\ ~last.returned.isNull
    /\ last.returned.data.price = "450.00"
    /\ last.price = Num(45000)
    /\ last.card.units = "shares"
    /\ last.card.count = 6
    /\ last.card.remaining = 30000
    /\ last.card.remainingShown


\* C21: an order that placeKiteOrder submits for a card is for an instrument
\* whose price is available and not above 3000, and its quantity is the
\* number of shares that 3000 buys at that price: a positive number whose
\* cost is within 3000.
C21_QuantityWithinBudget ==
    [][(last'.op = "placeKiteOrder" /\ orders' # orders) =>
        /\ cards[last'.key].price.kind = "num"
        /\ cards[last'.key].price.paise > 0
        /\ orders'[Len(orders')].quantity > 0
        /\ orders'[Len(orders')].quantity * cards[last'.key].price.paise
              <= 3000 * 100
        /\ (orders'[Len(orders')].quantity + 1) * cards[last'.key].price.paise
              > 3000 * 100
      ]_vars

\* C22: the click on the Buy button sends no order: an order of a card goes
\* out in a later step, the confirmation by the user.
C22_ConfirmBeforeOrder ==
    [][last'.op = "placeKiteOrder" => orders' = orders]_vars

\* C23: a step that sends an order is a click on a Buy button or on the
\* test button; the polls, the responses, the ingestion, the cards and the
\* price lookups send none.
C23_OnlyClicksOrder ==
    [][orders' # orders =>
        last'.op \in {"placeKiteOrder", "testTataSilverOrder"}]_vars

\* With a session open, a record was ingested, its price was looked up and
\* its card shows the units, and no order was sent.
C23_Witness ==
    /\ kiteAuthenticated
    /\ orders = <<>>
    /\ allAnnouncements # <<>>
    /\ last.op = "showPrice"
    /\ \E code \in CardCodes :
          /\ cards[code].loaded
          /\ orderQuantity(cards[code]) = 6
    /\ \E k \in PriceKeys : stockPriceCache[k].present


\* C26: a call requests its strategies in the order 1 (local proxy), 2
\* (direct request), 3, 4 (the relays, as listed); the first one when the
\* call begins, and the next one in the step in which the request of the
\* one before it failed: that request got no body to hand over.
C26_StrictOrder ==
    [][\A s \in Slots :
          (fetches'[s].stage > 0 /\ fetches'[s].req # fetches[s].req) =>
              /\ fetches'[s].req = [i \in 1..fetches'[s].stage |-> i]
              /\ fetches'[s].stage > 1 =>
                    /\ fetches'[s].stage = fetches[s].stage + 1
                    /\ fetches'[s].req = Append(fetches[s].req, fetches'[s].stage)
                    /\ last'.op = "fetchAnnouncements"
                    /\ last'.strategy = fetches[s].stage
                    /\ ~last'.handed
      ]_vars

\* The requests of a call, in a sequence without repetition.
OncePerStrategy(req) ==
    /\ Len(req) <= 2 + Len(CORS_PROXIES)
    /\ \A i, j \in 1..Len(req) : i # j => req[i] # req[j]

\* C27: a call requests each strategy at most once, so at most 2 + the
\* number of relays requests in all, whatever fails, and the first strategy
\* is requested again only when the start or the timer begins a new call.
C27_NoRetryWithinCall ==
    [][/\ \A s \in Slots : OncePerStrategy(fetches'[s].req)
       /\ last'.op = "fetchAnnouncements" => OncePerStrategy(last'.req)
       /\ \A s \in Slots :
             (fetches'[s].req # fetches[s].req /\ fetches'[s].req # <<>>
                 /\ fetches'[s].req[Len(fetches'[s].req)] = 1)
                => /\ last'.op \in {"startMonitoring", "timer"}
                   /\ fetches[s].req = <<>>
      ]_vars

\* Every strategy of a call failed, and the next tick of the timer requests
\* the local proxy again.
C27_Witness ==
    /\ last.op = "timer"
    /\ status.state = "paused"
    /\ \E s \in Slots : fetches[s].req = <<1>>


\* C28: a body whose Table is a single object is ingested as the list of
\* that one record, and a body whose Table is an array as the list of its
\* records in the reverse of the order of the array.
C28_NormalizedAndReversed ==
    (last.op = "fetchAnnouncements" /\ last.handed /\ last.data.kind # "none") =>
        /\ last.wellFormed
        /\ last.data.kind = "object" => last.batch = <<last.data.Table>>
        /\ last.data.kind = "array" =>
              /\ Len(last.batch) = Len(last.data.Table)
              /\ \A i \in 1..Len(last.batch) :
                    last.batch[i] = last.data.Table[Len(last.batch) + 1 - i]

\* An array of two records was ingested last record first, and both
\* records are in the Feed in that order.
C28_Witness ==
    /\ Pass
    /\ last.data.kind = "array"
    /\ Len(last.data.Table) = 2
    /\ last.batch = <<last.data.Table[2], last.data.Table[1]>>
    /\ Len(last.new) = 2
    /\ RawOf(allAnnouncements[1]) = last.data.Table[2]


\* The texts of the six fields of a body, in the order of extractPrice.
PriceFields(d) == <<d.price, d.CurrentPrice, d.LTP, d.LastPrice, d.CurrRate, d.WAP>>

Parseable(t) == t # Null /\ parseFloat(t).kind = "num"

\* C29: for a body that is an object, extractPrice returns the number of
\* the first of price, CurrentPrice, LTP, LastPrice, CurrRate, WAP whose
\* text parses to a number, passing over the fields before it that do not,
\* and null when no field parses or there is no body.
C29_FirstParseableField ==
    last.op = "showPrice" =>
        IF last.returned.isNull THEN last.price = NullPrice
        ELSE ~last.returned.data.isArray =>
            IF \E i \in 1..6 : Parseable(PriceFields(last.returned.data)[i])
            THEN \E i \in 1..6 :
                    /\ Parseable(PriceFields(last.returned.data)[i])
                    /\ \A j \in 1..(i - 1) :
                          ~Parseable(PriceFields(last.returned.data)[j])
                    /\ last.price = parseFloat(PriceFields(last.returned.data)[i])
            ELSE last.price = NullPrice


\* Whether sub occurs in text.
Contains(text, sub) ==
    \E i \in 1..(Len(text) - Len(sub) + 1) : SubSeq(text, i, i + Len(sub) - 1) = sub

\* C24: the amount returned for a record is a piece of the record's own text,
\* trimmed and not otherwise altered: for the headline "Order worth Rs. 28.75
\* Crore received" it contains "28.75" and "Crore", and for "no numbers here"
\* it is null.
C24_AmountVerbatim ==
    last.op = "extractRupeeAmount" =>
        /\ last.output # Null =>
              /\ Contains(last.input[1] \o " " \o last.input[2], last.output)
              /\ trim(last.output) = last.output
        /\ last.input = <<"Order worth Rs. 28.75 Crore received", "">> =>
              /\ Contains(last.output, "28.75")
              /\ Contains(last.output, "Crore")
        /\ last.input = <<"no numbers here", "">> => last.output = Null


\* The pieces of a URL between its slashes.
RECURSIVE SplitSlash(_, _)
SplitSlash(s, cur) ==
    IF s = "" THEN <<cur>>
    ELSE IF CharAt(s, 1) = "/" THEN <<cur>> \o SplitSlash(Tail(s), "")
    ELSE SplitSlash(Tail(s), cur \o CharAt(s, 1))

AllDigits(s) == s # "" /\ \A i \in 1..Len(s) : CharAt(s, i) \in Digits

\* The symbol segment of a URL ending in
\* /stock-share-price/<company-name>/<symbol>/<numeric-code>/ (the final slash
\* may be missing), or Null when the URL has another shape.
ShapedSymbolOf(segs, n) ==
    IF /\ n >= 5
       /\ AllDigits(segs[n])
       /\ segs[n - 1] # ""
       /\ segs[n - 2] # ""
       /\ segs[n - 3] = "stock-share-price"
    THEN segs[n - 1] ELSE Null

ShapedSymbolIn(segs) ==
    ShapedSymbolOf(segs, IF Len(segs) > 1 /\ segs[Len(segs)] = ""
                         THEN Len(segs) - 1 ELSE Len(segs))

ShapedSymbol(url) == ShapedSymbolIn(SplitSlash(url, ""))

NoLowerCase(s) == \A i \in 1..Len(s) : IndexIn(CharAt(s, i), LowerCase) = 0

MatchingPatterns(text) ==
    {i \in 1..Len(patterns) : FirstMatchFrom(patterns[i], text, 1) # Null}

LowestOf(S) == CHOOSE i \in S : \A j \in S : i <= j

LoweredInput == toLowerCase(last.input[1] \o " " \o last.input[2])

\* C30: the amount patterns are tried in their listed order over the headline
\* joined with the detail text; the result is the first match of the lowest
\* pattern that matches anywhere in the text, and null exactly when no pattern
\* matches.
C30_LowestPatternWins ==
    last.op = "extractRupeeAmount" =>
        IF MatchingPatterns(LoweredInput) = {}
        THEN last.output = Null
        ELSE /\ last.output # Null
             /\ last.output =
                  trim(FirstMatchFrom(patterns[LowestOf(MatchingPatterns(LoweredInput))],
                                      LoweredInput, 1))

\* A later pattern matches at the start of the text, an earlier one further on.
C30_Witness ==
    /\ last.op = "extractRupeeAmount"
    /\ last.input = <<"5 Crore Rupees", "order of INR 12 cr">>
    /\ MatchAt(patterns[3], LoweredInput, 1) # 0
    /\ MatchAt(patterns[1], LoweredInput, 1) = 0
    /\ MatchingPatterns(LoweredInput) = {1, 3, 4}
    /\ last.output = "inr 12 cr"


\* C32: SeenSet and the Feed are changed only by the ingestion of a fetched
\* batch and by a confirmed clear: starting and stopping the monitoring, a
\* fetch whose requests fail, a price lookup and the sound and filter toggles
\* leave both as they were.
C32_OnlyIngestionAndClearWrite ==
    [][(seenAnnouncementIds' # seenAnnouncementIds
            \/ allAnnouncements' # allAnnouncements)
        => \/ last'.op = "fetchAnnouncements" /\ last'.handed
           \/ last'.op = "clearAll" /\ last'.confirmed]_vars

\* handleFetchError ran while the Feed held records.
C32_Witness ==
    /\ last.op = "fetchAnnouncements"
    /\ ~last.handed
    /\ last.reported
    /\ seenAnnouncementIds # {}
    /\ allAnnouncements # <<>>


\* C33: in every reachable state the ids of the records in the Feed are
\* exactly the ids in SeenSet, and no id occurs twice in the Feed.
C33_FeedIsSeenSet ==
    /\ {allAnnouncements[i].id : i \in 1..Len(allAnnouncements)} = seenAnnouncementIds
    /\ \A i, j \in 1..Len(allAnnouncements) :
          allAnnouncements[i].id = allAnnouncements[j].id => i = j


\* C34: a fetchAnnouncements call ends in exactly one of two ways: one body
\* was handed to processApiResponse, once, and handleFetchError was not
\* called, or handleFetchError was called and no body was handed over; no
\* call hands a body over twice.
C34_OneOutcomePerCall ==
    last.op = "fetchAnnouncements" =>
        /\ last.handedCount <= 1
        /\ last.ended =>
              \/ last.handedCount = 1 /\ ~last.reported
              \/ last.handedCount = 0 /\ last.reported


\* C35: through the toggle, start and stop operations a repeating timer is
\* registered exactly when isMonitoring is true, at most one timer exists,
\* and every timer that runs is the one whose handle pollInterval holds.
C35_TimerIffMonitoring ==
    /\ (timers # {}) <=> isMonitoring
    /\ Cardinality(timers) <= 1
    /\ \A t \in timers : t = pollInterval


\* C36: createAnnouncementId gives different ids to two records that differ
\* in at least one of SCRIP_CD, NEWSID, DT_TM and NEWS_SUB.
C36_IdInjective ==
    (last.op = "createAnnouncementId"
        /\ KeyFields(last.batch[1]) # KeyFields(last.batch[2]))
    => last.ids[1] # last.ids[2]


\* C37: after every ingestion pass the cards of the list, from top to bottom,
\* are the records of the Feed in the order of the Feed.
C37_CardsInFeedOrder ==
    (last.track /\ Pass) =>
        last.list = [i \in 1..Len(allAnnouncements) |-> allAnnouncements[i].id]


\* C39: a confirmed clearAll empties SeenSet and the Feed together and leaves
\* isMonitoring, the timer and the price cache as they were; a clearAll that
\* is declined changes nothing; and no operation removes a key from the
\* price cache.
C39_ClearFrame ==
    [][/\ (last'.op = "clearAll" /\ last'.confirmed) =>
            /\ seenAnnouncementIds' = {}
            /\ allAnnouncements' = <<>>
            /\ UNCHANGED <<isMonitoring, pollInterval, timers, stockPriceCache>>
       /\ (last'.op = "clearAll" /\ ~last'.confirmed) =>
            UNCHANGED <<isMonitoring, pollInterval, timers, seenAnnouncementIds,
                        allAnnouncements, soundEnabled, stockPriceCache, status,
                        fetches, priceCalls, now, kiteAuthenticated, cards, orders>>
       /\ \A k \in PriceKeys : stockPriceCache[k].present => stockPriceCache'[k].present
      ]_vars

\* A confirmed clear while the monitoring runs and the cache holds a price.
C39_Witness ==
    /\ last.op = "clearAll"
    /\ last.confirmed
    /\ isMonitoring
    /\ timers # {}
    /\ \E k \in PriceKeys : stockPriceCache[k].present
    /\ seenAnnouncementIds = {}
    /\ allAnnouncements = <<>>


\* C38: for each cache key at most one request to the price endpoint is
\* outstanding at any time.
C38_OneLookupPerKey == \A k \in PriceKeys : priceCalls[k] <= 1


\* C31: however the fetchStockPrice calls interleave, a call writes the cache
\* entry of its own key only: a lookup that succeeds replaces the entry of
\* its key by its result and the time of its resolution, a lookup that fails
\* and every other step leave the cache as it was (so the entry of a key is
\* the result of the successful lookup that resolved last), and the
\* timestamp of an entry never decreases.
C31_OwnKeyLastWriteWins ==
    [][/\ last'.op = "fetchStockPrice" =>
            /\ \A k \in PriceKeys \ {last'.key} : stockPriceCache'[k] = stockPriceCache[k]
            /\ last'.ok =>
                  stockPriceCache'[last'.key] =
                      [present |-> TRUE, data |-> last'.returned.data, timestamp |-> now]
            /\ ~last'.ok => stockPriceCache'[last'.key] = stockPriceCache[last'.key]
       /\ last'.op # "fetchStockPrice" => stockPriceCache' = stockPriceCache
       /\ \A k \in PriceKeys :
            stockPriceCache'[k].timestamp >= stockPriceCache[k].timestamp
      ]_vars

\* A lookup wrote the entry of its key while another lookup of the same key
\* was waiting, and the older entry of the other key is still there.
C31_Witness ==
    /\ last.op = "fetchStockPrice"
    /\ last.ok
    /\ priceCalls[last.key] >= 1
    /\ stockPriceCache[last.key].data = last.returned.data
    /\ \E k \in PriceKeys \ {last.key} :
          /\ stockPriceCache[k].present
          /\ stockPriceCache[k].timestamp < stockPriceCache[last.key].timestamp

=============================================================================
